---- MODULE Spec2Model ----
(***************************************************************************)
(* nano402 core: the durable index allocator (FileIndexStore), the        *)
(* in-memory invoice store (MemoryInvoiceStore) and the invoice           *)
(* lifecycle / payment verification engine (Nano402).                     *)
(*                                                                         *)
(* Every async method is cut at its await points: one action per          *)
(* synchronous run of code between two suspension points.                 *)
(***************************************************************************)
EXTENDS Integers, Sequences, FiniteSets, TLC

(***************************************************************************)
(* Bounds of the model                                                     *)
(***************************************************************************)
\* highest index the concurrent allocator model hands out
MaxIndex == 2
\* highest index the sequential allocator model hands out
MaxSeqIndex == 8
\* process restarts (crash + new FileIndexStore on the same file)
MaxRestarts == 1
\* restarts in the sequential allocator model
MaxSeqRestarts == 2

\* invoices the lifecycle models create
MaxInvoices == 3
\* invoices the concurrent lifecycle model creates
MaxConcInvoices == 2
\* last instant of the clock
MaxTime == 2
\* ledger transactions around the verified invoice
MaxTx == 2
\* payments made in the lifecycle models
MaxPayments == 1
\* highest access_count reached
MaxAccess == 1
\* invoices the guarded route creates
MaxGuardInvoices == 2
\* payments made to the invoices of the guarded route
MaxGuardPayments == 2
\* transactions a proof header can name
MaxProofTx == 2
\* invoices the origin-tracking route creates
MaxIpInvoices == 3
MaxRetries == 3
MaxSeconds == 3
MaxStoreInvoices == 2
MaxRpcCalls == 2
MaxCacheCalls == 2
\* concurrent guarded requests: requests that arrive, invoices they create
MaxVisits == 3
MaxUsageInvoices == 2
\* store calls one request handler makes in a row without awaiting the host
MaxChainCalls == 2

\* callers of the index store that may be in flight at the same time
IdxProcs == {"a", "b"}
\* indexes the sequential model marks used from outside (imported invoices)
SeqMarkArgs == {2, 5}

VARIABLES
    \* ---- FileIndexStore (indexStore.ts) ----
    file,          \* the persisted index file: [present, indexes, highestIndex]
    tmpFile,       \* the `${filePath}.tmp` file, same shape
    indexes,       \* this.indexes
    highestIndex,  \* this.highestIndex
    initialized,   \* this.initialized
    writeLock,     \* this.writeLock: the chain of persist jobs, oldest first
    writing,       \* the head job has written the temp file, rename is next
    ipc,           \* where each caller of the index store is
    iop,           \* which method each caller is in: "get" | "mark"
    nextIndex,     \* the caller's local nextIndex / index argument
    issued,        \* history: <<index, epoch>> of every getNextIndex return
    epoch,         \* history: number of restarts so far
    extMarked,     \* history: markIndexUsed was called from outside
    burned,        \* history: a crash hit a getNextIndex that had persisted but not returned
    \* ---- MemoryIndexStore (indexStore.ts) ----
    memHighest,    \* MemoryIndexStore.highestIndex (its set is 0..highestIndex)
    \* ---- MemoryInvoiceStore (errors.ts) ----
    invoices,      \* this.invoices, in insertion order; an invoice's id is its position
    resourceIndex, \* this.resourceIndex: resource -> invoice id (0: no entry)
    ipResourceIndex, \* this.ipResourceIndex: ip -> resource -> invoice id (0: no entry)
    \* ---- Nano402 (nano402.ts) ----
    cfg,           \* constructor config and the options passed to verifyPayment
    call,          \* each caller's running Nano402 method: its position and locals
    \* ---- environment ----
    now,           \* Date.now()
    pendingBlocks, \* the ledger's receivable blocks (accounts_pending), oldest first
    historyTx,     \* the ledger's account_history entries, in response order
    everTx,        \* history: every transaction the ledger ever had
    \* ---- handleGuardRequest (guardLogic.ts) and its adapter ----
    opts,          \* the GuardOptions of the protected route
    req,           \* the request being handled: its position, inputs and locals
    \* ---- NanoRpcClient and RpcCache (rpcClient.ts, index.ts) ----
    client,        \* the constructor's config: retries, cacheEnabled, cacheTtl
    rpcCache,      \* RpcCache.cache: the entries, at most one per key
    rpc,           \* each caller's running client method: its position and locals
    requests,      \* history: the requests sent upstream, oldest first, and how each ended
    clears,        \* history: per account, the last clearCache and whether a call followed
    nCalls,        \* history: number of client methods called so far
    \* ---- verification.ts, generate402Response (guardLogic.ts) ----
    fn,            \* the function applied last: its name, arguments and result
    \* ---- SqliteInvoiceStore (rpcClient.ts) ----
    rows,          \* the rows of the invoices table, in insertion order
    \* ---- concurrent guarded requests (guardLogic.ts and the adapters) ----
    visit,         \* each concurrent request: its position, path and granted invoice
    granted,       \* history: the invoice ids of the grants returned, oldest first
    nVisits,       \* history: number of requests that have arrived
    \* ---- MemoryInvoiceStore's named lock (errors.ts) and the job queue ----
    pendingLocks,  \* this.pendingLocks: key -> the caller whose promise it holds
    waiters,       \* per key, the callers awaiting the promise, in the order they began
    jobs,          \* the runtime's queue of continuations ready to run, oldest first
    lk,            \* each caller of a locking store method: its position and keys
    \* ---- invoice data in the FileIndexStore and recovery (indexStore.ts, errors.ts) ----
    idxInvoices,   \* FileIndexStore.invoices: id -> StoredInvoiceData
    tmpInvoices,   \* the `invoices` array of the temp file
    fileInvoices,  \* the `invoices` array of the persisted file
    indexInitialized, \* MemoryInvoiceStore.indexInitialized
    deleted,       \* history: the ids whose delete has completed
    found          \* history: the answers of the find methods, oldest first

invVars == << memHighest, invoices, resourceIndex, ipResourceIndex, cfg, call, now,
              pendingBlocks,
              historyTx, everTx >>

idxVars == << file, tmpFile, indexes, highestIndex, initialized, writeLock,
              writing, ipc, iop, nextIndex, issued, epoch, extMarked,
              burned >>

guardVars == << opts, req >>

rpcVars == << client, rpcCache, rpc, requests, clears, nCalls >>

adapterVars == << visit, granted, nVisits >>

lockVars == << pendingLocks, waiters, jobs, lk >>

recVars == << idxInvoices, tmpInvoices, fileInvoices, indexInitialized, deleted, found >>

concVars == << adapterVars, lockVars, recVars >>

vars == << idxVars, invVars, guardVars, rpcVars, fn, rows, concVars >>

(***************************************************************************)
(* FileIndexStore                                                          *)
(***************************************************************************)
NoFile == [present |-> FALSE, indexes |-> {}, highestIndex |-> -1]

\* constructor: empty set, highestIndex = -1, not initialized, writeLock resolved
IdxInit ==
    /\ file = NoFile
    /\ tmpFile = NoFile
    /\ indexes = {}
    /\ highestIndex = -1
    /\ initialized = FALSE
    /\ writeLock = << >>
    /\ writing = FALSE
    /\ ipc = [p \in IdxProcs |-> "idle"]
    /\ iop = [p \in IdxProcs |-> "get"]
    /\ nextIndex = [p \in IdxProcs |-> -1]
    /\ issued = << >>
    /\ epoch = 0
    /\ extMarked = FALSE
    /\ burned = FALSE

\* sequential use: a call starts only when no other call is in flight
IdxQuiet(sequential) == sequential => \A q \in IdxProcs : ipc[q] = "idle"

\* initialize(): `if (this.initialized) return;` else the readFile is issued
AfterInitialize(p, cont) ==
    ipc' = [ipc EXCEPT ![p] = IF initialized THEN cont ELSE "init_read"]

\* getNextIndex() up to `await this.initialize()`
IdxCallGet(p, maxIdx, sequential) ==
    /\ ipc[p] = "idle"
    /\ IdxQuiet(sequential)
    /\ highestIndex < maxIdx
    /\ file.highestIndex < maxIdx
    /\ iop' = [iop EXCEPT ![p] = "get"]
    /\ AfterInitialize(p, "compute")
    /\ UNCHANGED << file, tmpFile, indexes, highestIndex, initialized, writeLock,
                    writing, nextIndex, issued, epoch, extMarked, burned >>

\* markIndexUsed(index) called from outside, up to `await this.initialize()`
IdxCallMark(p, i, sequential) ==
    /\ ipc[p] = "idle"
    /\ IdxQuiet(sequential)
    /\ iop' = [iop EXCEPT ![p] = "mark"]
    /\ nextIndex' = [nextIndex EXCEPT ![p] = i]
    /\ extMarked' = TRUE
    /\ AfterInitialize(p, "check")
    /\ UNCHANGED << file, tmpFile, indexes, highestIndex, initialized, writeLock,
                    writing, issued, epoch, burned >>

\* an initialize that ignores the persisted file: every start is fresh
IdxInitReadFresh(p) ==
    /\ ipc[p] = "init_read"
    /\ indexes' = {}
    /\ highestIndex' = -1
    /\ initialized' = TRUE
    /\ ipc' = [ipc EXCEPT ![p] = IF iop[p] = "get" THEN "compute" ELSE "check"]
    /\ UNCHANGED << file, tmpFile, writeLock, writing, iop, nextIndex, issued,
                    epoch, extMarked, burned >>

\* initialize(): readFile completes; the parsed file replaces the in-memory
\* state (a missing or invalid file starts fresh), then initialized = true
IdxInitRead(p) ==
    /\ ipc[p] = "init_read"
    /\ indexes' = IF file.present THEN file.indexes ELSE {}
    /\ highestIndex' = IF file.present THEN file.highestIndex ELSE -1
    /\ initialized' = TRUE
    /\ ipc' = [ipc EXCEPT ![p] = IF iop[p] = "get" THEN "compute" ELSE "check"]
    /\ UNCHANGED << file, tmpFile, writeLock, writing, iop, nextIndex, issued,
                    epoch, extMarked, burned >>

\* `let nextIndex = this.highestIndex + 1; while (this.indexes.has(nextIndex)) nextIndex++`
RECURSIVE FirstUnused(_, _)
FirstUnused(n, used) == IF n \in used THEN FirstUnused(n + 1, used) ELSE n

\* getNextIndex(): the scan, then the call of markIndexUsed up to its
\* `await this.initialize()`
IdxCompute(p) ==
    /\ ipc[p] = "compute"
    /\ nextIndex' = [nextIndex EXCEPT ![p] = FirstUnused(highestIndex + 1, indexes)]
    /\ AfterInitialize(p, "check")
    /\ UNCHANGED << file, tmpFile, indexes, highestIndex, initialized, writeLock,
                    writing, iop, issued, epoch, extMarked, burned >>

\* markIndexUsed(): `if (!this.indexes.has(index)) { add; raise highest; persist() }`
\* persist() appends its job to the writeLock chain and awaits it; an index
\* already in the set makes markIndexUsed return at once
IdxCheck(p) ==
    /\ ipc[p] = "check"
    /\ IF nextIndex[p] \notin indexes
       THEN /\ indexes' = indexes \cup {nextIndex[p]}
            /\ highestIndex' = IF nextIndex[p] > highestIndex
                               THEN nextIndex[p] ELSE highestIndex
            /\ writeLock' = Append(writeLock, p)
            /\ ipc' = [ipc EXCEPT ![p] = "persist"]
       ELSE /\ ipc' = [ipc EXCEPT ![p] = "ret"]
            /\ UNCHANGED << indexes, highestIndex, writeLock >>
    /\ UNCHANGED << file, tmpFile, initialized, writing, iop, nextIndex, issued,
                    epoch, extMarked, burned >>

\* persist(): the job at the head of the chain snapshots the in-memory state
\* and writes it to the temp file
IdxPersistWrite(p) ==
    /\ writeLock # << >> /\ Head(writeLock) = p
    /\ ~writing
    /\ tmpFile' = [present |-> TRUE, indexes |-> indexes, highestIndex |-> highestIndex]
    /\ writing' = TRUE
    /\ UNCHANGED << file, indexes, highestIndex, initialized, writeLock, ipc, iop,
                    nextIndex, issued, epoch, extMarked, burned >>

\* persist(): rename(temp, file) replaces the file; the job ends and the
\* caller awaiting it resumes: markIndexUsed returns
IdxPersistRename(p) ==
    /\ writeLock # << >> /\ Head(writeLock) = p
    /\ writing
    /\ file' = tmpFile
    /\ writing' = FALSE
    /\ writeLock' = Tail(writeLock)
    /\ ipc' = [ipc EXCEPT ![p] = "ret"]
    /\ UNCHANGED << tmpFile, indexes, highestIndex, initialized, iop, nextIndex,
                    issued, epoch, extMarked, burned >>

\* the call returns to its caller: getNextIndex yields nextIndex
IdxReturn(p) ==
    /\ ipc[p] = "ret"
    /\ ipc' = [ipc EXCEPT ![p] = "idle"]
    /\ issued' = IF iop[p] = "get"
                 THEN Append(issued, << nextIndex[p], epoch >>) ELSE issued
    /\ nextIndex' = [nextIndex EXCEPT ![p] = -1]
    /\ UNCHANGED << file, tmpFile, indexes, highestIndex, initialized, writeLock,
                    writing, iop, epoch, extMarked, burned >>

\* the process dies at any point (also between the temp-file write and the
\* rename) and a new FileIndexStore is constructed on the same file
IdxRestart(maxRestarts) ==
    /\ epoch < maxRestarts
    /\ epoch' = epoch + 1
    /\ indexes' = {}
    /\ highestIndex' = -1
    /\ initialized' = FALSE
    /\ writeLock' = << >>
    /\ writing' = FALSE
    /\ ipc' = [p \in IdxProcs |-> "idle"]
    /\ nextIndex' = [p \in IdxProcs |-> -1]
    /\ burned' = (burned \/ \E p \in IdxProcs : ipc[p] = "ret" /\ iop[p] = "get")
    /\ UNCHANGED << file, tmpFile, iop, issued, extMarked >>

(***************************************************************************)
(* Invoices, the ledger and the configuration                              *)
(***************************************************************************)
InvProcs == {"p", "q"}
Resources == {"r1"}
Senders == {"s1", "s2"}
\* client origins of updateInvoiceClientIp
ClientIps == {"ip1", "ip2"}
\* the paths a guard can protect; Resources are the ones createInvoice is
\* called with directly
Paths == {"r1", "r2"}
\* amount_raw of every invoice (xnoToRaw(amount_xno))
Price == 2
\* ttlSeconds of createInvoice, in clock ticks
TTLs == {1}

\* absent optional fields: tx_hash 0, paid_at -1, sender_account / client_ip "none"
NoInvoice ==
    [resource |-> "none", index |-> -1, amount_raw |-> 0, created_at |-> 0,
     expires_at |-> 0, proof_expires_at |-> 0, status |-> "none", tx_hash |-> 0,
     paid_at |-> -1, sender_account |-> "none", client_ip |-> "none",
     access_count |-> 0]

\* a Partial<Invoice>; "keep" / -2 stand for a key the object does not have
NoUpdate ==
    [status |-> "keep", tx_hash |-> -2, paid_at |-> -2, sender_account |-> "keep",
     client_ip |-> "keep", access_count |-> -2]

\* a caller's running method.  History fields: conc (another createInvoice
\* of the resource was in flight during this one), saved (this call saved a
\* new invoice) and, kept for calls made one at a time, pre (the invoice as
\* verifyPayment read it), fresh (it was pending and unexpired then),
\* late (expires_at or proof_expires_at had passed then), reported (the
\* blocks accounts_pending returned to this call)
IdleCall ==
    [pc |-> "idle", op |-> "none", id |-> 0, resource |-> "none", proof |-> 0,
     draft |-> NoInvoice, upd |-> NoUpdate, ret |-> "none", conc |-> FALSE,
     saved |-> FALSE, pre |-> NoInvoice, fresh |-> FALSE, late |-> FALSE,
     reported |-> {}]

\* the default configuration: acceptPending true, verifySender false,
\* verifyTimestamp true, proofExpirationSeconds equal to the default ttl
DefaultCfg ==
    [acceptPending |-> TRUE, verifySender |-> FALSE, allowedSenders |-> {},
     verifyTimestamp |-> TRUE, proofTtl |-> 1]

\* every configuration: the proof window ends with the invoice or before it
AllCfgs ==
    { c \in [acceptPending : BOOLEAN, verifySender : BOOLEAN,
             allowedSenders : {{}, {"s1"}}, verifyTimestamp : BOOLEAN,
             proofTtl : {0, 1}] :
        ~c.verifySender => c.allowedSenders = {} }

InvInit(cfgs) ==
    /\ memHighest = -1
    /\ invoices = << >>
    /\ resourceIndex = [r \in Paths |-> 0]
    /\ ipResourceIndex = [ip \in ClientIps |-> [r \in Paths |-> 0]]
    /\ cfg \in cfgs
    /\ call = [p \in InvProcs |-> IdleCall]
    /\ now = 0
    /\ pendingBlocks = << >>
    /\ historyTx = << >>
    /\ everTx = {}

Ids == DOMAIN invoices

\* nanoDerivation is opaque and injective: the account of an index is the index
deriveAccount(index) == index

\* `new Date(invoice.expires_at) < new Date()`
IsExpiredAt(inv, t) == inv.expires_at < t

(***************************************************************************)
(* MemoryInvoiceStore                                                      *)
(***************************************************************************)
\* findPendingByResource: the invoice the resource index points at, when it
\* is pending and not expired; 0 for null
findPendingByResource(r) ==
    LET id == resourceIndex[r] IN
    IF id = 0 THEN 0
    ELSE IF invoices[id].status = "pending"
         THEN (IF IsExpiredAt(invoices[id], now) THEN 0 ELSE id)
         ELSE 0

\* `{ ...invoice, ...updates }`
Merge(inv, u) ==
    [inv EXCEPT
        !.status = IF u.status = "keep" THEN @ ELSE u.status,
        !.tx_hash = IF u.tx_hash = -2 THEN @ ELSE u.tx_hash,
        !.paid_at = IF u.paid_at = -2 THEN @ ELSE u.paid_at,
        !.sender_account = IF u.sender_account = "keep" THEN @ ELSE u.sender_account,
        !.client_ip = IF u.client_ip = "keep" THEN @ ELSE u.client_ip,
        !.access_count = IF u.access_count = -2 THEN @ ELSE u.access_count]

\* the in-flight calls of Nano402 (not idle, not returned)
InFlight(p) == call[p].pc \notin {"idle", "ret"}

Quiet(sequential) == sequential => \A q \in InvProcs : call[q].pc = "idle"

Finish(p, result) ==
    call' = [call EXCEPT ![p] = [@ EXCEPT !.pc = "ret", !.ret = result]]

\* the method goes on to `await this.invoiceStore.update(id, updates)` and
\* will return result when the update is done
ThenUpdate(p, o, id, updates, result) ==
    call' = [call EXCEPT ![p] =
                [IdleCall EXCEPT !.pc = "update", !.op = o, !.id = id,
                                 !.upd = updates, !.ret = result,
                                 !.proof = call[p].proof]]

Done(p, o, id, result) ==
    call' = [call EXCEPT ![p] =
                [IdleCall EXCEPT !.pc = "ret", !.op = o, !.id = id, !.ret = result,
                                 !.proof = call[p].proof]]

\* the "Update IP tracking if IP changed" part of update: the invoice's old
\* ip loses its entry for the resource, the new ip gets one
IpIndexAfter(invoice, id, ip) ==
    IF ip = "keep" THEN ipResourceIndex
    ELSE LET removed == IF invoice.client_ip = "none" THEN ipResourceIndex
                        ELSE [ipResourceIndex EXCEPT
                                 ![invoice.client_ip][invoice.resource] = 0]
         IN  [removed EXCEPT ![ip][invoice.resource] = id]

\* MemoryInvoiceStore.update: merge into the stored invoice and point the
\* resource index at this invoice
StoreUpdate(p) ==
    /\ call[p].pc = "update"
    /\ LET id == call[p].id IN
       IF id \in Ids
       THEN /\ invoices' = [invoices EXCEPT ![id] = Merge(@, call[p].upd)]
            /\ resourceIndex' = [resourceIndex EXCEPT ![invoices[id].resource] = id]
            /\ ipResourceIndex' = IpIndexAfter(invoices[id], id, call[p].upd.client_ip)
            /\ call' = [call EXCEPT ![p] = [@ EXCEPT !.pc = "ret", !.upd = NoUpdate]]
       ELSE /\ call' = [call EXCEPT ![p] = [@ EXCEPT !.pc = "ret", !.ret = "NotFound",
                                                     !.upd = NoUpdate]]
            /\ UNCHANGED << invoices, resourceIndex, ipResourceIndex >>
    /\ UNCHANGED << memHighest, cfg, now, pendingBlocks, historyTx, everTx >>

\* the caller takes the result
Return(p) ==
    /\ call[p].pc = "ret"
    /\ call' = [call EXCEPT ![p] = IdleCall]
    /\ UNCHANGED << memHighest, invoices, resourceIndex, ipResourceIndex, cfg, now, pendingBlocks,
                    historyTx, everTx >>

(***************************************************************************)
(* Nano402.createInvoice                                                   *)
(***************************************************************************)
\* createInvoice up to the first findPendingByResource: an unexpired pending
\* invoice of the resource is returned, else the index is fetched next
CreateFind(p, r, maxInv, sequential) ==
    /\ call[p].pc = "idle"
    /\ Quiet(sequential)
    /\ memHighest + 1 + Cardinality({q \in InvProcs : call[q].pc = "c_alloc"}) < maxInv
    /\ LET existing == findPendingByResource(r)
           others == {q \in InvProcs \ {p} :
                         InFlight(q) /\ call[q].op = "create" /\ call[q].resource = r}
       IN  call' = [q \in InvProcs |->
                      IF q = p
                      THEN [IdleCall EXCEPT
                               !.op = "create", !.resource = r,
                               !.pc = IF existing # 0 THEN "ret" ELSE "c_alloc",
                               !.id = existing,
                               !.ret = IF existing # 0 THEN "invoice" ELSE "none",
                               !.conc = (others # {})]
                      ELSE IF q \in others THEN [call[q] EXCEPT !.conc = TRUE]
                      ELSE call[q]]
    /\ UNCHANGED << memHighest, invoices, resourceIndex, ipResourceIndex, cfg, now, pendingBlocks,
                    historyTx, everTx >>

\* MemoryIndexStore.getNextIndex, then the invoice object is built: an
\* invoice whose expires_at is already past is created expired
CreateAlloc(p) ==
    /\ call[p].pc = "c_alloc"
    /\ \E ttl \in TTLs :
         LET index == memHighest + 1
             expires == now + ttl
             inv == [NoInvoice EXCEPT
                        !.resource = call[p].resource,
                        !.index = index,
                        !.amount_raw = Price,
                        !.created_at = now,
                        !.expires_at = expires,
                        !.proof_expires_at = now + cfg.proofTtl,
                        !.status = IF expires < now THEN "expired" ELSE "pending"]
         IN  /\ memHighest' = index
             /\ call' = [call EXCEPT ![p] = [@ EXCEPT !.pc = "c_check", !.draft = inv]]
    /\ UNCHANGED << invoices, resourceIndex, ipResourceIndex, cfg, now, pendingBlocks, historyTx,
                    everTx >>

\* "Double-check for race condition before saving"
CreateDoubleCheck(p) ==
    /\ call[p].pc = "c_check"
    /\ LET doubleCheck == findPendingByResource(call[p].resource) IN
       call' = [call EXCEPT ![p] =
                   IF doubleCheck # 0
                   THEN [@ EXCEPT !.pc = "ret", !.id = doubleCheck, !.ret = "invoice",
                                  !.draft = NoInvoice]
                   ELSE [@ EXCEPT !.pc = "c_save"]]
    /\ UNCHANGED << memHighest, invoices, resourceIndex, ipResourceIndex, cfg, now, pendingBlocks,
                    historyTx, everTx >>

\* MemoryInvoiceStore.save: the invoice is stored under its fresh id and the
\* resource index points at it
CreateSave(p) ==
    /\ call[p].pc = "c_save"
    /\ LET id == Len(invoices) + 1 IN
       /\ invoices' = Append(invoices, call[p].draft)
       /\ resourceIndex' = [resourceIndex EXCEPT ![call[p].resource] = id]
       /\ call' = [call EXCEPT ![p] =
                      [@ EXCEPT !.pc = "ret", !.id = id, !.ret = "invoice",
                                !.saved = TRUE, !.draft = NoInvoice]]
    /\ UNCHANGED << memHighest, ipResourceIndex, cfg, now, pendingBlocks, historyTx,
                    everTx >>

(***************************************************************************)
(* Nano402.verifyPayment                                                   *)
(***************************************************************************)
\* verifyPayment up to the first ledger call: unknown id, expiry (the
\* invoice is marked expired), proof expiry, already paid or used, in the
\* order of the code
VerifyStart(p, id, proofTxHash, sequential) ==
    /\ call[p].pc = "idle"
    /\ Quiet(sequential)
    /\ call' = [call EXCEPT ![p] =
          IF id \notin Ids
          THEN [IdleCall EXCEPT !.pc = "ret", !.op = "verify", !.id = id,
                                !.proof = proofTxHash, !.ret = "false"]
          ELSE LET invoice == invoices[id]
                   base == [IdleCall EXCEPT
                               !.op = "verify", !.id = id, !.proof = proofTxHash,
                               !.pre = IF sequential THEN invoice ELSE NoInvoice,
                               !.fresh = (sequential /\ invoice.status = "pending"
                                          /\ ~IsExpiredAt(invoice, now)),
                               !.late = (sequential
                                         /\ (IsExpiredAt(invoice, now)
                                             \/ invoice.proof_expires_at < now))]
               IN  IF IsExpiredAt(invoice, now)
                   THEN [base EXCEPT !.pc = "update", !.ret = "false",
                                     !.upd = [NoUpdate EXCEPT !.status = "expired"]]
                   ELSE IF invoice.proof_expires_at < now
                   THEN [base EXCEPT !.pc = "ret", !.ret = "false"]
                   ELSE IF invoice.status \in {"paid", "used"}
                   THEN [base EXCEPT !.pc = "ret", !.ret = "true"]
                   ELSE [base EXCEPT !.pc = IF cfg.acceptPending
                                            THEN "v_pending" ELSE "v_history"]]
    /\ UNCHANGED << memHighest, invoices, resourceIndex, ipResourceIndex, cfg, now, pendingBlocks,
                    historyTx, everTx >>

\* the sender check of the pending loop: only a block that carries a source
\* is checked against a non-empty allow-list
PendingSenderOk(b) ==
    (cfg.verifySender /\ b.source # "none" /\ cfg.allowedSenders # {})
        => b.source \in cfg.allowedSenders

\* a loop body that skips a block paying exactly amount_raw
PendingBlockOkAbove(b, invoice, proofTxHash) ==
    /\ ~(proofTxHash # 0 /\ b.hash # proofTxHash)
    /\ ~(b.amount <= invoice.amount_raw)
    /\ PendingSenderOk(b)

\* the body of the loop over the pending blocks: hash against the proof,
\* amount against amount_raw, sender
PendingBlockOk(b, invoice, proofTxHash) ==
    /\ ~(proofTxHash # 0 /\ b.hash # proofTxHash)
    /\ ~(b.amount < invoice.amount_raw)
    /\ PendingSenderOk(b)

\* the entries of a sequence that are for one account, in order
RECURSIVE ForAccount(_, _)
ForAccount(seq, account) ==
    IF seq = << >> THEN << >>
    ELSE IF Head(seq).account = account
         THEN << Head(seq) >> \o ForAccount(Tail(seq), account)
         ELSE ForAccount(Tail(seq), account)

\* position of the first element of seq that satisfies Ok, 0 when none does
RECURSIVE FirstMatch(_, _, _)
FirstMatch(seq, Ok(_), k) ==
    IF k > Len(seq) THEN 0
    ELSE IF Ok(seq[k]) THEN k ELSE FirstMatch(seq, Ok, k + 1)

PaidUpdate(hash, sender) ==
    [NoUpdate EXCEPT !.status = "paid", !.tx_hash = hash, !.paid_at = now,
                     !.sender_account = sender]

\* accountsPending answers (or fails: the catch goes on to the history);
\* the first acceptable block makes the invoice paid
VerifyPending(p, rpcOk) ==
    /\ call[p].pc = "v_pending"
    /\ LET invoice == invoices[call[p].id]
           blocks == ForAccount(pendingBlocks, deriveAccount(invoice.index))
           Ok(b) == PendingBlockOk(b, invoice, call[p].proof)
           k == IF rpcOk THEN FirstMatch(blocks, Ok, 1) ELSE 0
           seen == IF rpcOk /\ call[p].pre # NoInvoice
                   THEN {blocks[j] : j \in DOMAIN blocks} ELSE {}
       IN  call' = [call EXCEPT ![p] =
                      IF k # 0
                      THEN [@ EXCEPT !.pc = "update", !.ret = "true", !.reported = seen,
                                     !.upd = PaidUpdate(blocks[k].hash, blocks[k].source)]
                      ELSE [@ EXCEPT !.pc = "v_history", !.reported = seen]]
    /\ UNCHANGED << memHighest, invoices, resourceIndex, ipResourceIndex, cfg, now, pendingBlocks,
                    historyTx, everTx >>

\* a find predicate without the amount comparison
HistoryTxOkAnyAmount(tx, invoice, proofTxHash) ==
    /\ ~(proofTxHash # 0 /\ tx.hash # proofTxHash)
    /\ tx.type = "receive"
    /\ (tx.confirmed = "true" \/ (cfg.acceptPending /\ tx.confirmed = "false"))
    /\ ~(cfg.verifyTimestamp /\ tx.local_timestamp # -1
         /\ tx.local_timestamp < invoice.created_at)
    /\ (cfg.verifySender /\ cfg.allowedSenders # {}) => tx.sender \in cfg.allowedSenders

\* the predicate of historyArray.find
HistoryTxOk(tx, invoice, proofTxHash) ==
    /\ ~(proofTxHash # 0 /\ tx.hash # proofTxHash)
    /\ tx.type = "receive"
    /\ (tx.confirmed = "true" \/ (cfg.acceptPending /\ tx.confirmed = "false"))
    /\ ~(tx.amount < invoice.amount_raw)
    /\ ~(cfg.verifyTimestamp /\ tx.local_timestamp # -1
         /\ tx.local_timestamp < invoice.created_at)
    /\ (cfg.verifySender /\ cfg.allowedSenders # {}) => tx.sender \in cfg.allowedSenders

\* a history step that marks the invoice expired when nothing matched
VerifyHistoryMarking(p, rpcOk) ==
    /\ call[p].pc = "v_history"
    /\ LET invoice == invoices[call[p].id]
           historyArray == ForAccount(historyTx, deriveAccount(invoice.index))
           Ok(tx) == HistoryTxOk(tx, invoice, call[p].proof)
           k == IF rpcOk THEN FirstMatch(historyArray, Ok, 1) ELSE 0
       IN  call' = [call EXCEPT ![p] =
                      IF k # 0
                      THEN [@ EXCEPT !.pc = "update", !.ret = "true",
                                     !.upd = PaidUpdate(historyArray[k].hash,
                                                        historyArray[k].sender)]
                      ELSE [@ EXCEPT !.pc = "update", !.ret = "false",
                                     !.upd = [NoUpdate EXCEPT !.status = "expired"]]]
    /\ UNCHANGED << memHighest, invoices, resourceIndex, ipResourceIndex, cfg, now, pendingBlocks,
                    historyTx, everTx >>

\* accountHistory answers (or fails: the outer catch returns false); the
\* first matching entry makes the invoice paid
VerifyHistory(p, rpcOk) ==
    /\ call[p].pc = "v_history"
    /\ LET invoice == invoices[call[p].id]
           historyArray == ForAccount(historyTx, deriveAccount(invoice.index))
           Ok(tx) == HistoryTxOk(tx, invoice, call[p].proof)
           k == IF rpcOk THEN FirstMatch(historyArray, Ok, 1) ELSE 0
       IN  call' = [call EXCEPT ![p] =
                      IF k # 0
                      THEN [@ EXCEPT !.pc = "update", !.ret = "true",
                                     !.upd = PaidUpdate(historyArray[k].hash,
                                                        historyArray[k].sender)]
                      ELSE [@ EXCEPT !.pc = "ret", !.ret = "false"]]
    /\ UNCHANGED << memHighest, invoices, resourceIndex, ipResourceIndex, cfg, now, pendingBlocks,
                    historyTx, everTx >>

(***************************************************************************)
(* Nano402: getStatus, markUsed, cancelInvoice, refundInvoice,             *)
(* incrementInvoiceAccess, updateInvoiceClientIp                           *)
(***************************************************************************)
\* each reads the invoice with findById, checks it, and then awaits the
\* store's update
StartOp(p, sequential) == call[p].pc = "idle" /\ Quiet(sequential)

GetStatus(p, id, sequential) ==
    /\ StartOp(p, sequential)
    /\ IF id \notin Ids THEN Done(p, "status", id, "NotFound")
       ELSE IF invoices[id].status = "pending" /\ IsExpiredAt(invoices[id], now)
       THEN ThenUpdate(p, "status", id, [NoUpdate EXCEPT !.status = "expired"], "expired")
       ELSE Done(p, "status", id, invoices[id].status)
    /\ UNCHANGED << memHighest, invoices, resourceIndex, ipResourceIndex, cfg, now, pendingBlocks,
                    historyTx, everTx >>

MarkUsed(p, id, sequential) ==
    /\ StartOp(p, sequential)
    /\ IF id \notin Ids THEN Done(p, "markUsed", id, "NotFound")
       ELSE IF invoices[id].status # "paid" THEN Done(p, "markUsed", id, "NotPaid")
       ELSE ThenUpdate(p, "markUsed", id, [NoUpdate EXCEPT !.status = "used"], "ok")
    /\ UNCHANGED << memHighest, invoices, resourceIndex, ipResourceIndex, cfg, now, pendingBlocks,
                    historyTx, everTx >>

CancelInvoice(p, id, sequential) ==
    /\ StartOp(p, sequential)
    /\ IF id \notin Ids THEN Done(p, "cancel", id, "NotFound")
       ELSE IF invoices[id].status # "pending" THEN Done(p, "cancel", id, "Error")
       ELSE ThenUpdate(p, "cancel", id, [NoUpdate EXCEPT !.status = "cancelled"], "ok")
    /\ UNCHANGED << memHighest, invoices, resourceIndex, ipResourceIndex, cfg, now, pendingBlocks,
                    historyTx, everTx >>

RefundInvoice(p, id, sequential) ==
    /\ StartOp(p, sequential)
    /\ IF id \notin Ids THEN Done(p, "refund", id, "NotFound")
       ELSE IF invoices[id].status \notin {"paid", "used"}
       THEN Done(p, "refund", id, "Error")
       ELSE ThenUpdate(p, "refund", id, [NoUpdate EXCEPT !.status = "refunded"], "ok")
    /\ UNCHANGED << memHighest, invoices, resourceIndex, ipResourceIndex, cfg, now, pendingBlocks,
                    historyTx, everTx >>

IncrementInvoiceAccess(p, id, sequential) ==
    /\ StartOp(p, sequential)
    /\ id \in Ids => invoices[id].access_count < MaxAccess
    /\ IF id \notin Ids THEN Done(p, "increment", id, "NotFound")
       ELSE ThenUpdate(p, "increment", id,
                [NoUpdate EXCEPT !.access_count = invoices[id].access_count + 1], "ok")
    /\ UNCHANGED << memHighest, invoices, resourceIndex, ipResourceIndex, cfg, now, pendingBlocks,
                    historyTx, everTx >>

UpdateInvoiceClientIp(p, id, ip, sequential) ==
    /\ StartOp(p, sequential)
    /\ ThenUpdate(p, "clientIp", id, [NoUpdate EXCEPT !.client_ip = ip], "ok")
    /\ UNCHANGED << memHighest, invoices, resourceIndex, ipResourceIndex, cfg, now, pendingBlocks,
                    historyTx, everTx >>

(***************************************************************************)
(* Environment: the clock and the ledger                                   *)
(***************************************************************************)
Tick ==
    /\ now < MaxTime
    /\ now' = now + 1
    /\ UNCHANGED << memHighest, invoices, resourceIndex, ipResourceIndex, cfg, call, pendingBlocks,
                    historyTx, everTx >>

TxCount == Cardinality(everTx)

\* somebody sends amount to an account: a receivable block appears
LedgerSend(account, amount, source, maxTx, timed) ==
    /\ TxCount < maxTx
    /\ LET b == [account |-> account, hash |-> TxCount + 1, amount |-> amount,
                 source |-> source]
       IN  /\ pendingBlocks' = Append(pendingBlocks, b)
           /\ everTx' = everTx \cup {[account |-> account, hash |-> b.hash,
                                       amount |-> amount, kind |-> "pending",
                                       sender |-> source,
                                       at |-> IF timed THEN now ELSE -1]}
    /\ UNCHANGED << memHighest, invoices, resourceIndex, ipResourceIndex, cfg, call, now, historyTx >>

\* an entry appears in an account's history (a receive or a send block)
LedgerHistory(account, type, amount, sender, confirmed, stamped, maxTx, timed) ==
    /\ TxCount < maxTx
    /\ LET tx == [account |-> account, type |-> type, sender |-> sender,
                  amount |-> amount, hash |-> TxCount + 1, confirmed |-> confirmed,
                  local_timestamp |-> IF stamped THEN now ELSE -1]
       IN  /\ historyTx' = Append(historyTx, tx)
           /\ everTx' = everTx \cup {[account |-> account, hash |-> tx.hash,
                                       amount |-> amount, kind |-> type,
                                       sender |-> sender,
                                       at |-> IF timed THEN now ELSE -1]}
    /\ UNCHANGED << memHighest, invoices, resourceIndex, ipResourceIndex, cfg, call, now,
                    pendingBlocks >>

\* a receivable block is received (or otherwise leaves accounts_pending)
LedgerDrop(k) ==
    /\ k \in DOMAIN pendingBlocks
    /\ pendingBlocks' = [j \in 1..(Len(pendingBlocks) - 1) |->
                            IF j < k THEN pendingBlocks[j] ELSE pendingBlocks[j + 1]]
    /\ UNCHANGED << memHighest, invoices, resourceIndex, ipResourceIndex, cfg, call, now, historyTx,
                    everTx >>

(***************************************************************************)
(* handleGuardRequest (guardLogic.ts) and the adapters' grant handling     *)
(***************************************************************************)
\* GuardOptions; -1 stands for an undefined sessionDuration or maxUsage, and
\* a sessionDuration is in clock ticks
DefaultOpts ==
    [trackByIp |-> FALSE, makeItPublic |-> FALSE, sessionDuration |-> -1,
     maxUsage |-> -1]

\* a session that ends before the invoice does, and one that outlives it
SessionDurations == {-1, 1, 3}

AllOpts ==
    [trackByIp : BOOLEAN, makeItPublic : BOOLEAN,
     sessionDuration : SessionDurations, maxUsage : {-1, 1}]

\* the caller under which the guard's Nano402 calls run
Guard == "p"

\* an x-402-request-id header that names no stored invoice
UnknownId == MaxGuardInvoices + 1

\* the request being handled.  requestId 0 / proof 0: the header is absent.
\* invoiceId and hasIp are the invoice a step read and whether it carried a
\* client_ip; type, resultId, error and status are the GuardResult.  History
\* fields: t0 (the instant the request arrived), pre (the invoice the
\* request id named or, without headers, the one tagged with the client's
\* ip for the path, as it was then), funded (the ledger then had a
\* transaction of at least that invoice's amount to its account),
\* paidBefore (the invoices of the path that were paid or used then),
\* rpcFailed (the last ledger call of a verifyPayment of this request
\* failed), rpcErrors (some ledger call of this request failed), created
\* (createInvoice saved a new invoice for this request), proofValid (what
\* the verifyPayment of step 3 returned), count0 and highest0 (the number
\* of stored invoices and the highest index in use when the request
\* arrived), grantable0 (the invoice getInvoiceByResource returned for the
\* path was then paid or used with a valid session and usage left)
IdleReq ==
    [pc |-> "idle", path |-> "none", requestId |-> 0, proof |-> 0,
     clientIp |-> "none", invoiceId |-> 0, hasIp |-> FALSE, type |-> "none",
     resultId |-> 0, error |-> "none", status |-> 0, t0 |-> 0,
     pre |-> NoInvoice, funded |-> FALSE, paidBefore |-> {},
     rpcFailed |-> FALSE, rpcErrors |-> FALSE, created |-> FALSE,
     proofValid |-> "none", count0 |-> 0, highest0 |-> -1,
     grantable0 |-> FALSE, message |-> "none", thrown |-> "none",
     nodeEnv |-> "none"]

GuardInit(options) ==
    /\ opts \in options
    /\ req = IdleReq

\* a missing field, an undefined argument
Missing == -1
MsPerSecond == 1000

\* a variant whose session still counts at the instant it ends
isSessionValidInclusive(invoice, sessionDuration, t) ==
    IF invoice.paid_at = Missing THEN FALSE
    ELSE IF sessionDuration = Missing
            THEN invoice.expires_at = Missing \/ t <= invoice.expires_at
    ELSE t <= invoice.paid_at + sessionDuration * MsPerSecond

\* isSessionValid when Date.now() is t; paid_at and expires_at are the
\* getTime() values of the invoice's strings, in milliseconds
isSessionValidAt(invoice, sessionDuration, t) ==
    IF invoice.paid_at = Missing THEN FALSE
    ELSE IF sessionDuration = Missing
            THEN IF invoice.expires_at = Missing THEN TRUE ELSE t < invoice.expires_at
    ELSE t < invoice.paid_at + sessionDuration * MsPerSecond

\* new Date(s).getTime() of an instant of the model's clock, which counts seconds
getTime(t) == IF t = Missing THEN Missing ELSE t * MsPerSecond

isSessionValid(invoice, sessionDuration) ==
    isSessionValidAt([paid_at |-> getTime(invoice.paid_at),
                      expires_at |-> getTime(invoice.expires_at)],
                     sessionDuration, getTime(now))

\* a usage check that never finds the usage exceeded
isUsageUnlimited(invoice, maxUsage) == FALSE

isUsageExceeded(invoice, maxUsage) ==
    IF maxUsage = -1 THEN FALSE ELSE invoice.access_count >= maxUsage

\* a shouldGrantAccess that does not compare the invoice's resource
shouldGrantAccessAnyResource(id, resourcePath) ==
    /\ id \in Ids
    /\ invoices[id].status \in {"paid", "used"}
    /\ isSessionValid(invoices[id], opts.sessionDuration)
    /\ ~isUsageExceeded(invoices[id], opts.maxUsage)

\* shouldGrantAccess of the invoice with this id (0: null)
shouldGrantAccess(id, resourcePath) ==
    /\ id \in Ids
    /\ invoices[id].resource = resourcePath
    /\ invoices[id].status \in {"paid", "used"}
    /\ isSessionValid(invoices[id], opts.sessionDuration)
    /\ ~isUsageExceeded(invoices[id], opts.maxUsage)

\* the request moves on without a Nano402 call
GoTo(pc) ==
    /\ req' = [req EXCEPT !.pc = pc]
    /\ UNCHANGED invVars

\* the request moves on and takes the result of the Nano402 call it awaited
TakeAndGoTo(pc) ==
    /\ req' = [req EXCEPT !.pc = pc]
    /\ call' = [call EXCEPT ![Guard] = IdleCall]

\* the request r with its GuardResult
Answer(r, type, id, error, status) ==
    [r EXCEPT !.pc = "done", !.type = type, !.resultId = id, !.error = error,
              !.status = status]

GuardResult(type, id, error, status) == req' = Answer(req, type, id, error, status)

Grant(id) == GuardResult("grant", id, "none", 0)

Deny(id, error) == GuardResult("deny", id, error, 0)

Awaited == call[Guard].pc = "ret"

\* where a request with these headers goes when step 1, or step 2, is over
\* or does not apply
AfterIp(r) == IF r.requestId # 0 /\ r.proof # 0 THEN "proof" ELSE "fallback"

\* a guard without step 2: the client's ip is never looked up
AfterPublicNoIp(r) == AfterIp(r)

AfterPublic(r) ==
    IF opts.trackByIp /\ r.requestId = 0 /\ r.proof = 0 THEN "ip" ELSE AfterIp(r)

FirstStep(r) == IF opts.makeItPublic THEN "public" ELSE AfterPublic(r)

\* everything of the store and the environment but the running calls
StoreAndLedger ==
    << memHighest, invoices, resourceIndex, ipResourceIndex, cfg, now,
       pendingBlocks, historyTx, everTx >>

\* the invoice a request is about: the one its request id names or,
\* without headers, the one tagged with its ip for the path (0: none)
Presented(path, requestId, proofTxHash, clientIp) ==
    IF requestId \in Ids THEN requestId
    ELSE IF requestId = 0 /\ proofTxHash = 0 THEN ipResourceIndex[clientIp][path]
    ELSE 0

Funded(invoice) ==
    \E tx \in everTx : /\ tx.account = deriveAccount(invoice.index)
                        /\ tx.amount >= invoice.amount_raw

\* a request arrives: its path, headers and client ip
GuardStart(path, requestId, proofTxHash, clientIp) ==
    /\ req.pc = "idle"
    /\ call[Guard].pc = "idle"
    /\ req' = [IdleReq EXCEPT
                  !.pc = FirstStep([requestId |-> requestId, proof |-> proofTxHash]),
                  !.path = path, !.requestId = requestId,
                  !.proof = proofTxHash, !.clientIp = clientIp, !.t0 = now,
                  !.count0 = Len(invoices), !.highest0 = memHighest,
                  !.grantable0 = shouldGrantAccess(resourceIndex[path], path),
                  !.pre = LET id == Presented(path, requestId, proofTxHash, clientIp)
                          IN  IF id # 0 THEN invoices[id] ELSE NoInvoice,
                  !.funded = LET id == Presented(path, requestId, proofTxHash, clientIp)
                             IN  id # 0 /\ Funded(invoices[id]),
                  !.paidBefore = {id \in Ids :
                                     /\ invoices[id].resource = path
                                     /\ invoices[id].status \in {"paid", "used"}}]
    /\ UNCHANGED invVars

\* steps 1 and 2 once the policy's invoice is read: a paid or used invoice
\* is granted on if shouldGrantAccess, a pending one is verified first
\* (without a proof), anything else falls through to the next step
GuardPolicy(id, wait, next) ==
    IF id # 0 /\ invoices[id].resource = req.path
       /\ invoices[id].status \in {"paid", "used"}
       /\ shouldGrantAccess(id, req.path)
    THEN Grant(id) /\ UNCHANGED invVars
    ELSE IF id # 0 /\ invoices[id].resource = req.path
            /\ invoices[id].status = "pending"
    THEN /\ VerifyStart(Guard, id, 0, TRUE)
         /\ req' = [req EXCEPT !.pc = wait, !.invoiceId = id]
    ELSE GoTo(next)

\* the verifyPayment of step 1 or 2 returned: on true the invoice is read
\* again and granted on if shouldGrantAccess
GuardPolicyVerified(wait, next) ==
    /\ req.pc = wait
    /\ Awaited
    /\ IF call[Guard].ret = "true" /\ shouldGrantAccess(req.invoiceId, req.path)
       THEN Grant(req.invoiceId) /\ call' = [call EXCEPT ![Guard] = IdleCall]
       ELSE TakeAndGoTo(next)
    /\ UNCHANGED StoreAndLedger

\* 1. makeItPublic: getInvoiceByResource
GuardPublic ==
    /\ req.pc = "public"
    /\ GuardPolicy(resourceIndex[req.path], "public_wait", AfterPublic(req))

GuardPublicVerified == GuardPolicyVerified("public_wait", AfterPublic(req))

\* 2. trackByIp and no headers: getInvoiceByClientIp(clientIp, resource)
GuardIp ==
    /\ req.pc = "ip"
    /\ GuardPolicy(ipResourceIndex[req.clientIp][req.path], "ip_wait", AfterIp(req))

GuardIpVerified == GuardPolicyVerified("ip_wait", AfterIp(req))

\* 3. both headers: verifyPayment(requestId, proofTxHash)
GuardProof ==
    /\ req.pc = "proof"
    /\ VerifyStart(Guard, req.requestId, req.proof, TRUE)
    /\ req' = [req EXCEPT !.pc = "proof_wait"]

\* a step 3 that, on an invalid proof, goes on to the fallback
GuardProofVerifiedFallThrough ==
    /\ req.pc = "proof_wait"
    /\ Awaited
    /\ LET r == [req EXCEPT !.proofValid = call[Guard].ret] IN
       req' = IF call[Guard].ret = "true"
                 /\ shouldGrantAccess(req.requestId, req.path)
              THEN Answer(r, "grant", req.requestId, "none", 0)
              ELSE [r EXCEPT !.pc = "fallback"]
    /\ call' = [call EXCEPT ![Guard] = IdleCall]
    /\ UNCHANGED StoreAndLedger

\* the verifyPayment of step 3 returned: a valid proof grants if
\* shouldGrantAccess, an invalid one denies with the invoice if it exists
GuardProofVerified ==
    /\ req.pc = "proof_wait"
    /\ Awaited
    /\ LET r == [req EXCEPT !.proofValid = call[Guard].ret] IN
       req' = IF call[Guard].ret = "true"
              THEN IF shouldGrantAccess(req.requestId, req.path)
                   THEN Answer(r, "grant", req.requestId, "none", 0)
                   ELSE [r EXCEPT !.pc = "fallback"]
              ELSE IF req.requestId \in Ids
                   THEN Answer(r, "deny", req.requestId,
                               "Payment proof verification failed", 0)
                   ELSE [r EXCEPT !.pc = "fallback"]
    /\ call' = [call EXCEPT ![Guard] = IdleCall]
    /\ UNCHANGED StoreAndLedger

\* 4. getInvoiceByResource: a paid or used invoice with a valid session and
\* usage left grants, a pending unexpired one has its status read, anything
\* else is replaced by a new invoice
GuardFallback ==
    /\ req.pc = "fallback"
    /\ LET id == resourceIndex[req.path] IN
       IF id = 0 \/ invoices[id].resource # req.path THEN GoTo("create")
       ELSE LET invoice == invoices[id]
                isInvoiceExpired ==
                    invoice.status = "expired" \/ IsExpiredAt(invoice, now)
                isSessionExpired ==
                    /\ invoice.status \in {"paid", "used"}
                    /\ ~isSessionValid(invoice, opts.sessionDuration)
                isPaidAndSessionValid ==
                    /\ invoice.status \in {"paid", "used"}
                    /\ isSessionValid(invoice, opts.sessionDuration)
                    /\ ~isUsageExceeded(invoice, opts.maxUsage)
            IN  IF isPaidAndSessionValid THEN Grant(id) /\ UNCHANGED invVars
                ELSE IF isInvoiceExpired \/ isSessionExpired THEN GoTo("create")
                ELSE IF invoice.status = "pending"
                THEN /\ GetStatus(Guard, id, TRUE)
                     /\ req' = [req EXCEPT !.pc = "status_wait", !.invoiceId = id,
                                           !.hasIp = (invoice.client_ip # "none")]
                ELSE GoTo("create")

\* getStatus returned: an expired invoice is replaced, a pending one is
\* returned with the 402, tagged with the client ip first if it has none
GuardStatus ==
    /\ req.pc = "status_wait"
    /\ Awaited
    /\ IF call[Guard].ret = "expired" THEN TakeAndGoTo("create")
       ELSE IF opts.trackByIp /\ ~req.hasIp THEN TakeAndGoTo("track")
       ELSE /\ Deny(req.invoiceId, "none")
            /\ call' = [call EXCEPT ![Guard] = IdleCall]
    /\ UNCHANGED StoreAndLedger

\* createInvoice({resource, amount_xno, ttlSeconds})
GuardCreateUpTo(maxInv) ==
    /\ req.pc = "create"
    /\ CreateFind(Guard, req.path, maxInv, TRUE)
    /\ req' = [req EXCEPT !.pc = "create_wait"]

GuardCreate == GuardCreateUpTo(MaxGuardInvoices)

GuardCreated ==
    /\ req.pc = "create_wait"
    /\ Awaited
    /\ call' = [call EXCEPT ![Guard] = IdleCall]
    /\ LET r == [req EXCEPT !.invoiceId = call[Guard].id,
                            !.created = call[Guard].saved]
       IN  req' = IF opts.trackByIp
                  THEN [r EXCEPT !.pc = "track"]
                  ELSE [r EXCEPT !.pc = "done", !.type = "deny",
                                 !.resultId = call[Guard].id]
    /\ UNCHANGED StoreAndLedger

\* updateInvoiceClientIp(invoice.id, clientIp), then the 402
GuardTrack ==
    /\ req.pc = "track"
    /\ UpdateInvoiceClientIp(Guard, req.invoiceId, req.clientIp, TRUE)
    /\ req' = [req EXCEPT !.pc = "track_wait"]

GuardTracked ==
    /\ req.pc = "track_wait"
    /\ Awaited
    /\ Deny(req.invoiceId, "none")
    /\ call' = [call EXCEPT ![Guard] = IdleCall]
    /\ UNCHANGED StoreAndLedger

\* the adapter on a deny or an error: the response is sent
AdapterRespond ==
    /\ req.pc = "done"
    /\ req.type # "grant"
    /\ req' = IdleReq
    /\ UNCHANGED invVars

\* the adapter on a grant: incrementInvoiceAccess, then markUsed, each with
\* its error ignored, then next()
AdapterIncrement ==
    /\ req.pc = "done"
    /\ req.type = "grant"
    /\ IncrementInvoiceAccess(Guard, req.resultId, TRUE)
    /\ req' = [req EXCEPT !.pc = "increment_wait"]

AdapterIncremented ==
    /\ req.pc = "increment_wait"
    /\ Awaited
    /\ TakeAndGoTo("mark")
    /\ UNCHANGED StoreAndLedger

AdapterMarkUsed ==
    /\ req.pc = "mark"
    /\ MarkUsed(Guard, req.resultId, TRUE)
    /\ req' = [req EXCEPT !.pc = "mark_wait"]

AdapterNext ==
    /\ req.pc = "mark_wait"
    /\ Awaited
    /\ req' = IdleReq
    /\ call' = [call EXCEPT ![Guard] = IdleCall]
    /\ UNCHANGED StoreAndLedger

\* the steps of the Nano402 call the request awaits; the ledger calls may
\* fail, and a failure of account_history is the failure of
\* verifyPayment's last ledger call
GuardCallSteps ==
    \/ /\ \/ CreateAlloc(Guard)
          \/ CreateDoubleCheck(Guard)
          \/ CreateSave(Guard)
          \/ StoreUpdate(Guard)
       /\ UNCHANGED req
    \/ \E rpcOk \in BOOLEAN :
          /\ VerifyPending(Guard, rpcOk)
          /\ req' = [req EXCEPT !.rpcErrors = @ \/ ~rpcOk]
    \/ \E rpcOk \in BOOLEAN :
          /\ VerifyHistory(Guard, rpcOk)
          /\ req' = [req EXCEPT !.rpcFailed = ~rpcOk, !.rpcErrors = @ \/ ~rpcOk]

\* ---- the catch block of handleGuardRequest ----
\* the classes of errors.ts and Error itself; all of them extend Error
ErrorClasses ==
    {"InvoiceNotFoundError", "InvoiceNotPaidError", "InvoiceExpiredError",
     "InvalidSeedError", "InvalidAmountError", "RpcError", "RpcTimeoutError",
     "ConcurrentModificationError", "Error"}

\* what an awaited call can reject with: an error of one of the classes, or
\* a value that is no Error
Throwables ==
    [class : ErrorClasses, message : {"details"}] \cup {[class |-> "string", message |-> ""]}

instanceOf(error, class) ==
    \/ error.class = class
    \/ class = "Error" /\ error.class \in ErrorClasses

NodeEnvs == {"development", "production"}

\* a catch block without the specific error types
GenericErrorResult(error, nodeEnv) ==
    [status |-> 500, error |-> "Internal server error",
     message |-> IF nodeEnv = "development"
                    THEN IF instanceOf(error, "Error") THEN error.message
                         ELSE "Internal server error"
                    ELSE "undefined"]

\* the GuardResult the catch block returns for an error
ErrorResult(error, nodeEnv) ==
    IF instanceOf(error, "InvoiceNotFoundError")
       THEN [status |-> 404, error |-> "Invoice not found", message |-> error.message]
    ELSE IF instanceOf(error, "InvoiceExpiredError")
       THEN [status |-> 410, error |-> "Invoice expired", message |-> error.message]
    ELSE IF instanceOf(error, "InvalidAmountError")
       THEN [status |-> 400, error |-> "Invalid amount", message |-> error.message]
    ELSE IF instanceOf(error, "RpcTimeoutError")
       THEN [status |-> 503, error |-> "Payment service temporarily unavailable",
             message |-> "RPC timeout"]
    ELSE IF instanceOf(error, "RpcError")
       THEN [status |-> 503, error |-> "Payment service temporarily unavailable",
             message |-> error.message]
    ELSE [status |-> 500, error |-> "Internal server error",
          message |-> IF nodeEnv = "development"
                         THEN IF instanceOf(error, "Error") THEN error.message
                              ELSE "Internal server error"
                         ELSE "undefined"]

\* the positions of handleGuardRequest at which it awaits a Nano402 call
GuardAwaits ==
    {"public_wait", "ip_wait", "proof_wait", "status_wait", "create_wait", "track_wait"}

\* the awaited call rejects, whatever it has done so far: the catch block
\* returns the error's GuardResult
GuardCatch(error, nodeEnv) ==
    /\ req.pc \in GuardAwaits
    /\ LET result == ErrorResult(error, nodeEnv)
       IN  req' = [Answer(req, "error", 0, result.error, result.status)
                       EXCEPT !.message = result.message, !.thrown = error.class,
                              !.nodeEnv = nodeEnv]
    /\ call' = [call EXCEPT ![Guard] = IdleCall]
    /\ UNCHANGED StoreAndLedger

(***************************************************************************)
(* verification.ts and generate402Response (guardLogic.ts), applied to     *)
(* arguments in milliseconds                                               *)
(***************************************************************************)
\* the instants around each full second
Instants == {s * MsPerSecond + d : s \in 0..MaxSeconds, d \in {0, 1, 500, 999}}
Durations == {Missing} \cup (0..MaxSeconds)

NoFn == [f |-> "none"]
FnInit == fn = NoFn

\* Math.ceil(n / 1000) of an integer n
CeilSeconds(n) == -((-n) \div MsPerSecond)
\* Math.floor(n / 1000)
FloorSeconds(n) == n \div MsPerSecond
Max(a, b) == IF a >= b THEN a ELSE b

\* a variant that rounds down
calculateRetryAfterFloor(expiresAt, t) == Max(0, FloorSeconds(expiresAt - t))

\* calculateRetryAfter when Date.now() is t
calculateRetryAfter(expiresAt, t) == Max(0, CeilSeconds(expiresAt - t))

\* Number.prototype.toString of a natural number: its decimal digits
RECURSIVE toString(_)
toString(n) == IF n < 10 THEN << n >> ELSE Append(toString(n \div 10), n % 10)

ApplyIsSessionValid ==
    \E paid_at \in {Missing} \cup Instants, expires_at \in {Missing} \cup Instants,
       sessionDuration \in Durations, t \in Instants :
        LET invoice == [paid_at |-> paid_at, expires_at |-> expires_at]
        IN  fn' = [f |-> "isSessionValid", invoice |-> invoice,
                   sessionDuration |-> sessionDuration, t |-> t,
                   result |-> isSessionValidAt(invoice, sessionDuration, t)]

\* the headers of generate402Response for an invoice with this expires_at
generate402Response(expires_at, t) ==
    LET retryAfter == calculateRetryAfter(expires_at, t)
    IN  fn' = [f |-> "generate402Response", expires_at |-> expires_at, t |-> t,
               status |-> 402, retryAfter |-> toString(retryAfter)]

\* one application per behaviour
FnNext ==
    /\ fn = NoFn
    /\ \/ ApplyIsSessionValid
       \/ \E expires_at \in Instants, t \in Instants : generate402Response(expires_at, t)
    /\ UNCHANGED << idxVars, invVars, guardVars, rpcVars, rows, concVars >>

(***************************************************************************)
(* RpcCache (index.ts) and NanoRpcClient (rpcClient.ts)                    *)
(***************************************************************************)
Callers == {"a", "b"}
Accounts == {"a1"}

\* the count parameter's default, and a count a caller chooses itself
DefaultCount == 10
OtherCount == 20
Counts == {DefaultCount, OtherCount}
\* the history count clearCache deletes besides the default one
ClearedCount == 50
\* accountInfo takes no count
NoCount == 0

DefaultRetries == 3
\* the cache's time to live, in ticks of the clock
DefaultTtl == 1
DefaultClient == [retries |-> DefaultRetries, cacheEnabled |-> TRUE, cacheTtl |-> DefaultTtl]

\* a response carries the parameters of the upstream request that fetched it
\* and that request's position in the log of upstream requests
NoData == [operation |-> "", account |-> "", count |-> NoCount, request |-> 0]

NoError == [name |-> "", statusCode |-> 0]
\* new RpcError(message, statusCode); statusCode 0 stands for undefined
RpcError(statusCode) == [name |-> "RpcError", statusCode |-> statusCode]
RpcTimeoutError == [name |-> "RpcTimeoutError", statusCode |-> 0]
\* what fetch rejects with when the connection fails
TypeError == [name |-> "TypeError", statusCode |-> 0]
\* what response.json() rejects with on a malformed body
SyntaxError == [name |-> "SyntaxError", statusCode |-> 0]
Success == [name |-> "ok", statusCode |-> 200]

HttpStatuses == {200, 400, 499, 500}
responseOk(status) == status >= 200 /\ status <= 299

IdleRpc == [pc |-> "idle", operation |-> "", account |-> "", count |-> NoCount,
            key |-> << >>, request |-> 0, attempt |-> 0, history |-> << >>, lastError |-> NoError,
            outcome |-> "none", error |-> NoError, data |-> NoData, afterClear |-> -1,
            timeoutId |-> FALSE]

RpcInit(clients) ==
    /\ client \in clients
    /\ rpcCache = {}
    /\ rpc = [c \in Callers |-> IdleRpc]
    /\ requests = << >>
    /\ clears = [a \in Accounts |-> [at |-> -1, used |-> FALSE]]
    /\ nCalls = 0

\* ---- RpcCache ----
accountHistoryKey(account, count) == << "account_history", account, count >>
accountInfoKey(account) == << "account_info", account >>
accountsPendingKey(account) == << "accounts_pending", account >>

cacheHas(cache, key) == \E e \in cache : e.key = key
cacheEntry(cache, key) == CHOOSE e \in cache : e.key = key
cacheDelete(cache, key) == {e \in cache : e.key # key}
cacheSet(cache, key, data) ==
    cacheDelete(cache, key)
        \cup {[key |-> key, data |-> data, timestamp |-> now, ttl |-> client.cacheTtl]}
\* get(key) finds an entry that has not expired
cacheHit(cache, key) ==
    /\ cacheHas(cache, key)
    /\ ~(now - cacheEntry(cache, key).timestamp > cacheEntry(cache, key).ttl)
\* get(key) deletes the entry it finds expired
cacheAfterGet(cache, key) ==
    IF cacheHas(cache, key) /\ ~cacheHit(cache, key) THEN cacheDelete(cache, key) ELSE cache

\* ---- NanoRpcClient.rpcCall ----
\* fetch(this.rpcUrl, ...) of one attempt: the request goes upstream
Fetch(operation, account, count) ==
    requests' = Append(requests, [operation |-> operation, account |-> account,
                                  count |-> count, at |-> now, result |-> "pending"])

\* the attempt's request has its answer
Settle(c, result) == requests' = [requests EXCEPT ![rpc[c].request].result = result]

\* a variant that gives up only on some 4xx statuses
isBadRequest(error) == error.name = "RpcError" /\ error.statusCode = 400

\* the 4xx test of the catch block
isClientError(error) ==
    /\ error.name = "RpcError"
    /\ error.statusCode # 0
    /\ error.statusCode >= 400
    /\ error.statusCode < 500

\* the catch blocks of an attempt: clearTimeout(timeoutId), then rethrow, or
\* wait before the next attempt
Caught(c, error) ==
    LET r == [rpc[c] EXCEPT !.history = Append(@, error), !.lastError = error,
                            !.timeoutId = FALSE]
    IN  /\ IF isClientError(error) \/ r.attempt = client.retries
              THEN rpc' = [rpc EXCEPT ![c] = [r EXCEPT !.pc = "done", !.outcome = "throw",
                                                       !.error = error]]
              ELSE rpc' = [rpc EXCEPT ![c] = [r EXCEPT !.pc = "sleep"]]
        /\ Settle(c, "failed")
        /\ UNCHANGED << client, rpcCache, clears, nCalls >>

\* the fetch promise settles: a response arrives, the timer aborts it, or the
\* connection fails
RpcFetched(c) ==
    /\ rpc[c].pc = "fetch"
    /\ \/ \E status \in HttpStatuses :
             IF responseOk(status)
                THEN /\ rpc' = [rpc EXCEPT ![c].pc = "body", ![c].timeoutId = FALSE]
                     /\ UNCHANGED << client, rpcCache, requests, clears, nCalls >>
                ELSE Caught(c, RpcError(status))
       \/ rpc[c].timeoutId /\ Caught(c, RpcTimeoutError)
       \/ Caught(c, TypeError)

\* response.json() settles; a result is returned to the caching method, which
\* stores it under its key
RpcParsed(c) ==
    /\ rpc[c].pc = "body"
    /\ \/ LET r == rpc[c]
              data == [operation |-> r.operation, account |-> r.account,
                       count |-> r.count, request |-> r.request]
          IN  /\ rpc' = [rpc EXCEPT ![c] = [r EXCEPT !.pc = "done", !.outcome = "ok",
                                                     !.data = data,
                                                     !.history = Append(@, Success)]]
              /\ rpcCache' = IF client.cacheEnabled
                                THEN cacheSet(rpcCache, r.key, data)
                                ELSE rpcCache
              /\ Settle(c, "ok")
              /\ UNCHANGED << client, clears, nCalls >>
       \/ Caught(c, RpcError(0))
       \/ Caught(c, SyntaxError)

\* sleep(retryDelay * 2^attempt) is over: the next attempt
RpcSlept(c) ==
    /\ rpc[c].pc = "sleep"
    /\ rpc' = [rpc EXCEPT ![c].pc = "fetch", ![c].attempt = @ + 1, ![c].timeoutId = TRUE,
                       ![c].request = Len(requests) + 1]
    /\ Fetch(rpc[c].operation, rpc[c].account, rpc[c].count)
    /\ UNCHANGED << client, rpcCache, clears, nCalls >>

\* the steps of a running call
RpcProgress(c) == RpcFetched(c) \/ RpcParsed(c) \/ RpcSlept(c)

\* ---- the caching methods ----
\* the cache lookup and, on a miss, the first attempt of rpcCall
CachedCall(c, operation, account, count, key, maxCalls) ==
    /\ rpc[c].pc = "idle"
    /\ nCalls < maxCalls
    /\ LET first == clears[account].at >= 0 /\ ~clears[account].used
           r == [IdleRpc EXCEPT !.operation = operation, !.account = account,
                                !.count = count, !.key = key,
                                !.afterClear = IF first THEN clears[account].at ELSE -1]
       IN  /\ IF client.cacheEnabled /\ cacheHit(rpcCache, key)
                 THEN /\ rpc' = [rpc EXCEPT ![c] = [r EXCEPT !.pc = "done", !.outcome = "ok",
                                     !.data = cacheEntry(rpcCache, key).data]]
                      /\ UNCHANGED << rpcCache, requests >>
                 ELSE /\ rpc' = [rpc EXCEPT ![c] = [r EXCEPT !.pc = "fetch", !.timeoutId = TRUE,
                                                          !.request = Len(requests) + 1]]
                      /\ rpcCache' = IF client.cacheEnabled
                                        THEN cacheAfterGet(rpcCache, key)
                                        ELSE rpcCache
                      /\ Fetch(operation, account, count)
    /\ clears' = [clears EXCEPT ![account].used = TRUE]
    /\ nCalls' = nCalls + 1
    /\ UNCHANGED client

accountHistory(c, account, count, maxCalls) ==
    CachedCall(c, "account_history", account, count, accountHistoryKey(account, count), maxCalls)

accountsPending(c, account, count, maxCalls) ==
    CachedCall(c, "accounts_pending", account, count, accountsPendingKey(account), maxCalls)

accountInfo(c, account, maxCalls) ==
    CachedCall(c, "account_info", account, NoCount, accountInfoKey(account), maxCalls)

clearCache(account) ==
    /\ rpcCache' = IF client.cacheEnabled
                      THEN cacheDelete(cacheDelete(cacheDelete(cacheDelete(rpcCache,
                               accountHistoryKey(account, DefaultCount)),
                               accountHistoryKey(account, ClearedCount)),
                               accountInfoKey(account)),
                               accountsPendingKey(account))
                      ELSE rpcCache
    /\ clears' = [clears EXCEPT ![account] = [at |-> Len(requests), used |-> FALSE]]
    /\ UNCHANGED << client, rpc, requests, nCalls >>

\* the caller has its result and may call again
RpcReturn(c) ==
    /\ rpc[c].pc = "done"
    /\ rpc' = [rpc EXCEPT ![c] = IdleRpc]
    /\ UNCHANGED << client, rpcCache, requests, clears, nCalls >>

(***************************************************************************)
(* SqliteInvoiceStore (rpcClient.ts) next to MemoryInvoiceStore            *)
(***************************************************************************)
SqliteInit == rows = << >>

\* MemoryInvoiceStore.save of a new invoice
MemorySave(invoice) ==
    /\ invoices' = Append(invoices, invoice)
    /\ resourceIndex' = [resourceIndex EXCEPT ![invoice.resource] = Len(invoices) + 1]
    /\ memHighest' = IF invoice.index > memHighest THEN invoice.index ELSE memHighest
    /\ UNCHANGED ipResourceIndex

\* SqliteInvoiceStore.save of a new invoice: INSERT
SqliteSave(invoice) == rows' = Append(rows, invoice)

\* MemoryInvoiceStore.update of a stored invoice
MemoryUpdate(id, updates) ==
    /\ invoices' = [invoices EXCEPT ![id] = Merge(@, updates)]
    /\ resourceIndex' = [resourceIndex EXCEPT ![invoices[id].resource] = id]
    /\ ipResourceIndex' = IpIndexAfter(invoices[id], id, updates.client_ip)
    /\ UNCHANGED memHighest

\* SqliteInvoiceStore.update: UPDATE invoices SET ... WHERE id = ?
SqliteUpdate(id, updates) == rows' = [rows EXCEPT ![id] = Merge(@, updates)]

\* MemoryInvoiceStore.findByResource: the id the resource index holds (0: null)
MemoryFindByResource(resource) == resourceIndex[resource]

\* the ids ORDER BY created_at DESC LIMIT 1 can return from these rows: a
\* row with the greatest created_at, any of them when several share it
MostRecent(ids) == {id \in ids : \A other \in ids : rows[other].created_at <= rows[id].created_at}

\* SqliteInvoiceStore.findByResource: the ids it can return (0: null)
SqliteFindByResource(resource) ==
    LET ofResource == {id \in DOMAIN rows : rows[id].resource = resource}
        paid == {id \in ofResource : rows[id].status \in {"paid", "used"}}
    IN  IF paid # {} THEN MostRecent(paid)
        ELSE IF ofResource # {} THEN MostRecent(ofResource)
        ELSE {0}

\* the invoice createInvoice saves for a resource
NewInvoice(resource) ==
    [NoInvoice EXCEPT !.resource = resource, !.index = Len(invoices),
                      !.amount_raw = Price, !.created_at = now, !.expires_at = now + 1,
                      !.proof_expires_at = now + 1, !.status = "pending"]

\* the updates Nano402 makes: a status with its fields, an access count
StoreUpdates ==
    {[NoUpdate EXCEPT !.status = "paid", !.paid_at = now],
     [NoUpdate EXCEPT !.status = "used"],
     [NoUpdate EXCEPT !.status = "expired"],
     [NoUpdate EXCEPT !.access_count = 1]}

\* both stores are given the same save
StoresSave(resource) ==
    /\ Len(invoices) < MaxStoreInvoices
    /\ MemorySave(NewInvoice(resource))
    /\ SqliteSave(NewInvoice(resource))
    /\ UNCHANGED << cfg, call, now, pendingBlocks, historyTx, everTx >>

\* Nano402 marks pending invoices paid or expired, paid ones used, and counts
\* the accesses of paid and used ones
UpdateOf(invoice, updates) ==
    CASE updates.status \in {"paid", "expired"} -> invoice.status = "pending"
      [] updates.status = "used" -> invoice.status = "paid"
      [] OTHER -> invoice.status \in {"paid", "used"}

\* both stores are given the same update
StoresUpdate(id, updates) ==
    /\ UpdateOf(invoices[id], updates)
    /\ MemoryUpdate(id, updates)
    /\ SqliteUpdate(id, updates)
    /\ UNCHANGED << cfg, call, now, pendingBlocks, historyTx, everTx >>

StoresNext ==
    \/ /\ \/ \E resource \in Resources : StoresSave(resource)
          \/ \E id \in Ids, updates \in StoreUpdates : StoresUpdate(id, updates)
       /\ UNCHANGED << idxVars, guardVars, rpcVars, fn, concVars >>
    \/ Tick /\ UNCHANGED << idxVars, guardVars, rpcVars, fn, rows, concVars >>

(***************************************************************************)
(* Concurrent requests on a guarded route: handleGuardRequest without      *)
(* proof headers (step 4), then the adapter's grant handling               *)
(***************************************************************************)
\* a route with a usage cap of one grant per invoice
UsageOpts == [DefaultOpts EXCEPT !.maxUsage = 1]

IdleVisit == [pc |-> "idle", path |-> "none", invoiceId |-> 0]

AdapterInit ==
    /\ visit = [g \in InvProcs |-> IdleVisit]
    /\ granted = << >>
    /\ nVisits = 0

\* the request of g moves on
VisitGoTo(g, pc) == visit' = [visit EXCEPT ![g].pc = pc]

\* the Nano402 call the request of g awaits has returned
Returned(g) == call[g].pc = "ret"

\* a request without proof headers arrives at a route that uses neither
\* makeItPublic nor trackByIp: steps 1 to 3 do not apply
VisitStart(g, path, maxVisits) ==
    /\ ~opts.makeItPublic
    /\ ~opts.trackByIp
    /\ visit[g].pc = "idle"
    /\ call[g].pc = "idle"
    /\ nVisits < maxVisits
    /\ visit' = [visit EXCEPT ![g] = [IdleVisit EXCEPT !.pc = "fallback", !.path = path]]
    /\ nVisits' = nVisits + 1
    /\ UNCHANGED << granted, invVars >>

\* 4. getInvoiceByResource and the decision on its invoice
VisitFallback(g) ==
    /\ visit[g].pc = "fallback"
    /\ UNCHANGED nVisits
    /\ LET path == visit[g].path
           id == resourceIndex[path]
       IN  IF id = 0 \/ invoices[id].resource # path
           THEN VisitGoTo(g, "create") /\ UNCHANGED << granted, invVars >>
           ELSE LET invoice == invoices[id]
                    isInvoiceExpired ==
                        invoice.status = "expired" \/ IsExpiredAt(invoice, now)
                    isSessionExpired ==
                        /\ invoice.status \in {"paid", "used"}
                        /\ ~isSessionValid(invoice, opts.sessionDuration)
                    isPaidAndSessionValid ==
                        /\ invoice.status \in {"paid", "used"}
                        /\ isSessionValid(invoice, opts.sessionDuration)
                        /\ ~isUsageExceeded(invoice, opts.maxUsage)
                IN  IF isPaidAndSessionValid
                    THEN /\ visit' = [visit EXCEPT ![g].pc = "granted",
                                                   ![g].invoiceId = id]
                         /\ granted' = Append(granted, id)
                         /\ UNCHANGED invVars
                    ELSE IF isInvoiceExpired \/ isSessionExpired
                    THEN VisitGoTo(g, "create") /\ UNCHANGED << granted, invVars >>
                    ELSE IF invoice.status = "pending"
                    THEN /\ GetStatus(g, id, FALSE)
                         /\ visit' = [visit EXCEPT ![g].pc = "status_wait",
                                                   ![g].invoiceId = id]
                         /\ UNCHANGED granted
                    ELSE VisitGoTo(g, "create") /\ UNCHANGED << granted, invVars >>

\* getStatus returned: an expired invoice is replaced, a pending one goes
\* out with the 402
VisitStatus(g) ==
    /\ visit[g].pc = "status_wait"
    /\ Returned(g)
    /\ visit' = [visit EXCEPT ![g] = IF call[g].ret = "expired"
                                     THEN [@ EXCEPT !.pc = "create"]
                                     ELSE IdleVisit]
    /\ call' = [call EXCEPT ![g] = IdleCall]
    /\ UNCHANGED << granted, nVisits, StoreAndLedger >>

\* createInvoice({resource, amount_xno, ttlSeconds})
VisitCreate(g, maxInv) ==
    /\ visit[g].pc = "create"
    /\ CreateFind(g, visit[g].path, maxInv, FALSE)
    /\ VisitGoTo(g, "create_wait")
    /\ UNCHANGED << granted, nVisits >>

\* the new invoice goes out with the 402
VisitCreated(g) ==
    /\ visit[g].pc = "create_wait"
    /\ Returned(g)
    /\ visit' = [visit EXCEPT ![g] = IdleVisit]
    /\ call' = [call EXCEPT ![g] = IdleCall]
    /\ UNCHANGED << granted, nVisits, StoreAndLedger >>

\* the adapter on a grant: incrementInvoiceAccess, then markUsed, each with
\* its error ignored, then next()
VisitIncrement(g) ==
    /\ visit[g].pc = "granted"
    /\ IncrementInvoiceAccess(g, visit[g].invoiceId, FALSE)
    /\ VisitGoTo(g, "increment_wait")
    /\ UNCHANGED << granted, nVisits >>

VisitIncremented(g) ==
    /\ visit[g].pc = "increment_wait"
    /\ Returned(g)
    /\ VisitGoTo(g, "mark")
    /\ call' = [call EXCEPT ![g] = IdleCall]
    /\ UNCHANGED << granted, nVisits, StoreAndLedger >>

VisitMarkUsed(g) ==
    /\ visit[g].pc = "mark"
    /\ MarkUsed(g, visit[g].invoiceId, FALSE)
    /\ VisitGoTo(g, "mark_wait")
    /\ UNCHANGED << granted, nVisits >>

VisitNext(g) ==
    /\ visit[g].pc = "mark_wait"
    /\ Returned(g)
    /\ visit' = [visit EXCEPT ![g] = IdleVisit]
    /\ call' = [call EXCEPT ![g] = IdleCall]
    /\ UNCHANGED << granted, nVisits, StoreAndLedger >>

\* the steps of the Nano402 call a request awaits
VisitCallSteps(g) ==
    /\ \/ CreateAlloc(g)
       \/ CreateDoubleCheck(g)
       \/ CreateSave(g)
       \/ StoreUpdate(g)
    /\ UNCHANGED adapterVars

(***************************************************************************)
(* MemoryInvoiceStore.acquireLock and the methods that use it.  The        *)
(* runtime runs one continuation at a time, in the order they became       *)
(* ready (jobs); a caller is in jobs from the moment what it awaited is    *)
(* settled until its continuation runs.                                    *)
(***************************************************************************)
LockProcs == {"a", "b", "c"}
LockIds == {1}
\* the store methods that lock: update takes `update:${id}` (save, with
\* `save:${id}`, has the same shape), delete `delete:${id}`;
\* incrementAccess takes `increment:${id}` and calls update while it holds it
LockOps == {"update", "delete", "increment"}
LockKeys == LockOps \X LockIds

NoHolder == "none"

\* chain: the store calls the caller's handler has made in a row; waited:
\* this call has awaited another caller's promise (history)
IdleLock == [pc |-> "idle", op |-> "none", id |-> 0, key |-> << >>, held |-> {},
             chain |-> 0, waited |-> FALSE]

LockInit ==
    /\ pendingLocks = [k \in LockKeys |-> NoHolder]
    /\ waiters = [k \in LockKeys |-> << >>]
    /\ jobs = << >>
    /\ lk = [c \in LockProcs |-> IdleLock]

\* `while (this.pendingLocks.has(key))` as a caller woken by a release
\* would see it if the loop were an `if`
hasOnArrival(c, key) == lk[c].pc # "woken" /\ pendingLocks[key] # NoHolder

\* `this.pendingLocks.has(key)`
has(c, key) == pendingLocks[key] # NoHolder

\* a runtime that would take a callback of the host while continuations
\* are ready
HostTurnAnyTime == TRUE

\* the runtime takes a callback of the host (an incoming request, the
\* completion of file I/O) only when no continuation is ready to run
HostTurn == jobs = << >>

\* a request arrives whose handler calls update(id, ...) or
\* incrementAccess(id): the continuation that makes the call is ready
LockCall(c, op, id) ==
    /\ HostTurn
    /\ lk[c].pc = "idle"
    /\ lk' = [lk EXCEPT ![c] = [IdleLock EXCEPT !.pc = "calling", !.op = op, !.id = id,
                                                !.key = << op, id >>, !.chain = 1]]
    /\ jobs' = Append(jobs, c)
    /\ UNCHANGED << pendingLocks, waiters >>

\* acquireLock(key), from its call or from the await of the loop: either
\* the key has a promise and the caller awaits it, or the caller puts its
\* own promise under the key and returns.  The holder of `increment:${id}`
\* goes on to call update and the holder of `delete:${id}` to its finally,
\* both without awaiting anything else; the holder of `update:${id}`
\* awaits storeInvoice
acquireLock(c, key) ==
    IF has(c, key)
    THEN /\ lk' = [lk EXCEPT ![c].pc = "waiting", ![c].waited = TRUE]
         /\ waiters' = [waiters EXCEPT ![key] = Append(@, c)]
         /\ jobs' = Tail(jobs)
         /\ UNCHANGED pendingLocks
    ELSE /\ pendingLocks' = [pendingLocks EXCEPT ![key] = c]
         /\ IF key[1] = "increment"
            THEN /\ lk' = [lk EXCEPT ![c].pc = "calling", ![c].held = @ \cup {key},
                                     ![c].key = << "update", key[2] >>]
                 /\ jobs' = Append(Tail(jobs), c)
            ELSE IF key[1] = "delete"
            THEN /\ lk' = [lk EXCEPT ![c].pc = "releasing", ![c].held = @ \cup {key}]
                 /\ jobs' = Append(Tail(jobs), c)
            ELSE /\ lk' = [lk EXCEPT ![c].pc = "holding", ![c].held = @ \cup {key}]
                 /\ jobs' = Tail(jobs)
         /\ UNCHANGED waiters

\* the index store's storeInvoice, which update awaits under its lock, is done
StoreInvoiceDone(c) ==
    /\ HostTurn
    /\ lk[c].pc = "holding"
    /\ lk' = [lk EXCEPT ![c].pc = "releasing"]
    /\ jobs' = Append(jobs, c)
    /\ UNCHANGED << pendingLocks, waiters >>

\* `releaseLock(); this.pendingLocks.delete(key)` in the finally: the
\* callers awaiting the promise become ready in the order they began to
\* wait; what awaited the method (incrementAccess after its update, else
\* the caller of the store) becomes ready behind them
releaseLock(c, key) ==
    LET woken == waiters[key]
        outer == lk[c].op = "increment" /\ key[1] = "update"
    IN  /\ pendingLocks' = [pendingLocks EXCEPT ![key] = NoHolder]
        /\ waiters' = [waiters EXCEPT ![key] = << >>]
        /\ jobs' = Tail(jobs) \o woken \o << c >>
        /\ lk' = [d \in LockProcs |->
                    IF d = c
                    THEN IF outer
                         THEN [lk[c] EXCEPT !.pc = "releasing", !.held = @ \ {key},
                                            !.key = << "increment", key[2] >>]
                         ELSE [lk[c] EXCEPT !.pc = "returned", !.held = @ \ {key}]
                    ELSE IF \E i \in DOMAIN woken : woken[i] = d
                         THEN [lk[d] EXCEPT !.pc = "woken"]
                         ELSE lk[d]]

\* the store method has returned to its caller, which is done
LockReturn(c) ==
    /\ lk' = [lk EXCEPT ![c] = IdleLock]
    /\ jobs' = Tail(jobs)
    /\ UNCHANGED << pendingLocks, waiters >>

\* the store method has returned to its caller, which calls the store
\* again at once (the adapter's markUsed after incrementInvoiceAccess)
LockCallAgain(c, op, id) ==
    /\ lk[c].pc = "returned"
    /\ lk[c].chain < MaxChainCalls
    /\ lk' = [lk EXCEPT ![c] = [IdleLock EXCEPT !.pc = "calling", !.op = op, !.id = id,
                                                !.key = << op, id >>,
                                                !.chain = lk[c].chain + 1]]
    /\ jobs' = Append(Tail(jobs), c)
    /\ UNCHANGED << pendingLocks, waiters >>

\* the runtime runs the oldest ready continuation
RunJob ==
    /\ jobs # << >>
    /\ LET c == Head(jobs) IN
       IF lk[c].pc \in {"calling", "woken"} THEN acquireLock(c, lk[c].key)
       ELSE IF lk[c].pc = "releasing" THEN releaseLock(c, lk[c].key)
       ELSE \/ LockReturn(c)
            \/ \E op \in LockOps, id \in LockIds : LockCallAgain(c, op, id)

LockNext ==
    \/ \E c \in LockProcs, op \in LockOps, id \in LockIds : LockCall(c, op, id)
    \/ \E c \in LockProcs : StoreInvoiceDone(c)
    \/ RunJob

(***************************************************************************)
(* Invoice data in the FileIndexStore: save, delete, recovery              *)
(***************************************************************************)
\* how many invoices are saved and how many finds are answered
MaxRecInvoices == 2
MaxFinds == 2

\* a Map without entries
NoEntries == << >>

RecInit ==
    /\ idxInvoices = NoEntries
    /\ tmpInvoices = NoEntries
    /\ fileInvoices = NoEntries
    /\ indexInitialized = FALSE
    /\ deleted = {}
    /\ found = << >>

\* map.set(key, value)
MapSet(map, key, value) ==
    [k \in DOMAIN map \cup {key} |-> IF k = key THEN value ELSE map[k]]

\* this.invoices.has(id): a deleted or lost invoice leaves NoInvoice at its id
InMemory(id) == id \in Ids /\ invoices[id] # NoInvoice

\* this.invoices.set(id, invoice)
InvoicesSet(id, invoice) ==
    [i \in 1..Max(Len(invoices), id) |->
        IF i = id THEN invoice
        ELSE IF i <= Len(invoices) THEN invoices[i] ELSE NoInvoice]

\* the StoredInvoiceData save builds from an invoice, and the invoice
\* ensureRecovered rebuilds from it: proof_expires_at, client_ip and
\* access_count are not among its fields
StoredInvoiceData(invoice) ==
    [invoice EXCEPT !.proof_expires_at = NoInvoice.proof_expires_at,
                    !.client_ip = NoInvoice.client_ip,
                    !.access_count = NoInvoice.access_count]

\* FileIndexStore.initialize(): the state it leaves, read from the file
\* unless the store is initialized already
LoadedIndexes == IF initialized THEN indexes ELSE IF file.present THEN file.indexes ELSE {}
LoadedHighest ==
    IF initialized THEN highestIndex ELSE IF file.present THEN file.highestIndex ELSE -1
LoadedInvoices ==
    IF initialized THEN idxInvoices ELSE IF file.present THEN fileInvoices ELSE NoEntries

\* the FileIndexStore after a call that initialized it and left it with
\* these indexes and invoices; persist() has run when the call changed them
FileIndexStoreAfter(ixs, highest, invs) ==
    /\ indexes' = ixs
    /\ highestIndex' = highest
    /\ idxInvoices' = invs
    /\ initialized' = TRUE
    /\ IF ixs # LoadedIndexes \/ invs # LoadedInvoices
          THEN /\ tmpFile' = [present |-> TRUE, indexes |-> ixs, highestIndex |-> highest]
               /\ file' = [present |-> TRUE, indexes |-> ixs, highestIndex |-> highest]
               /\ tmpInvoices' = invs
               /\ fileInvoices' = invs
          ELSE UNCHANGED << tmpFile, file, tmpInvoices, fileInvoices >>
    /\ UNCHANGED << writeLock, writing, ipc, iop, nextIndex, issued, extMarked, burned >>

\* MemoryInvoiceStore.save(invoice) of a new invoice, as one call:
\* markIndexUsed, storeInvoice, then the maps
RecSave(resource, ip) ==
    /\ Len(invoices) < MaxRecInvoices
    /\ LET id == Len(invoices) + 1
           invoice == [NewInvoice(resource) EXCEPT !.client_ip = ip]
       IN  /\ FileIndexStoreAfter(LoadedIndexes \cup {invoice.index},
                                  Max(LoadedHighest, invoice.index),
                                  MapSet(LoadedInvoices, id, StoredInvoiceData(invoice)))
           /\ invoices' = InvoicesSet(id, invoice)
           /\ resourceIndex' = [resourceIndex EXCEPT ![resource] = id]
           /\ ipResourceIndex' = IF ip # "none"
                                    THEN [ipResourceIndex EXCEPT ![ip][resource] = id]
                                    ELSE ipResourceIndex
    /\ UNCHANGED << epoch, memHighest, cfg, call, now, pendingBlocks, historyTx, everTx,
                    indexInitialized, deleted, found >>

\* MemoryInvoiceStore.delete(id) of an invoice it holds (it throws
\* InvoiceNotFoundError otherwise): the three maps, nothing else
RecDelete(id) ==
    /\ InMemory(id)
    /\ LET invoice == invoices[id] IN
       /\ invoices' = [invoices EXCEPT ![id] = NoInvoice]
       /\ resourceIndex' = IF resourceIndex[invoice.resource] = id
                              THEN [resourceIndex EXCEPT ![invoice.resource] = 0]
                              ELSE resourceIndex
       /\ ipResourceIndex' =
              IF invoice.client_ip # "none" /\ ipResourceIndex[invoice.client_ip][invoice.resource] = id
                 THEN [ipResourceIndex EXCEPT ![invoice.client_ip][invoice.resource] = 0]
                 ELSE ipResourceIndex
    /\ deleted' = deleted \cup {id}
    /\ UNCHANGED << idxVars, memHighest, cfg, call, now, pendingBlocks, historyTx, everTx,
                    idxInvoices, tmpInvoices, fileInvoices, indexInitialized, found >>

\* ensureRecovered(): on the first call every invoice of getAllInvoices()
\* that the store does not hold is rebuilt, its index marked used and its
\* resource indexed, later entries over earlier ones
ensureRecovered ==
    IF indexInitialized
       THEN UNCHANGED << idxVars, idxInvoices, tmpInvoices, fileInvoices, indexInitialized,
                         invoices, resourceIndex >>
       ELSE LET stored == LoadedInvoices
                rebuilt == {id \in DOMAIN stored : ~InMemory(id)}
                ixs == LoadedIndexes \cup {stored[id].index : id \in DOMAIN stored}
                last(r) == {id \in rebuilt : stored[id].resource = r
                                /\ \A other \in rebuilt :
                                      stored[other].resource = r => other <= id}
            IN  /\ FileIndexStoreAfter(ixs,
                                       IF ixs = {} THEN LoadedHighest
                                       ELSE Max(LoadedHighest, CHOOSE i \in ixs : \A j \in ixs : j <= i),
                                       stored)
                /\ invoices' = [id \in Ids |-> IF id \in rebuilt THEN stored[id] ELSE invoices[id]]
                /\ resourceIndex' = [r \in Paths |->
                                        IF last(r) # {} THEN CHOOSE id \in last(r) : TRUE
                                        ELSE resourceIndex[r]]
                /\ indexInitialized' = TRUE
                /\ UNCHANGED epoch

\* what a find method returns from the maps: the ids of the invoices
FindQueries ==
    [op : {"findById"}, id : 1..MaxRecInvoices, resource : {"none"}, ip : {"none"}]
        \cup [op : {"findByResource"}, id : {0}, resource : Paths, ip : {"none"}]
        \cup [op : {"findByClientIp"}, id : {0}, resource : Paths, ip : ClientIps]
        \cup [op : {"findAll"}, id : {0}, resource : {"none"}, ip : {"none"}]

Lookup(id) == IF id # 0 /\ InMemory(id) THEN {id} ELSE {}

FindAnswer(query) ==
    CASE query.op = "findById" -> Lookup(query.id)
      [] query.op = "findByResource" -> Lookup(resourceIndex[query.resource])
      [] query.op = "findByClientIp" -> Lookup(ipResourceIndex[query.ip][query.resource])
      [] OTHER -> {id \in Ids : InMemory(id)}

\* findById, findByResource, findByClientIp, findAll: ensureRecovered, then
\* the lookup
RecFind(query) ==
    /\ Len(found) < MaxFinds
    /\ ensureRecovered
    /\ UNCHANGED << memHighest, ipResourceIndex, cfg, call, now, pendingBlocks, historyTx,
                    everTx, deleted >>
    /\ found' = Append(found, [op |-> query.op, ids |-> FindAnswer(query)'])

\* the process ends and starts again: a new FileIndexStore on the same file
\* and a new MemoryInvoiceStore on it
RecRestart ==
    /\ epoch < MaxRestarts
    /\ \A p \in IdxProcs : ipc[p] = "idle"
    /\ epoch' = epoch + 1
    /\ indexes' = {}
    /\ highestIndex' = -1
    /\ initialized' = FALSE
    /\ idxInvoices' = NoEntries
    /\ invoices' = [id \in Ids |-> NoInvoice]
    /\ resourceIndex' = [r \in Paths |-> 0]
    /\ ipResourceIndex' = [ip \in ClientIps |-> [r \in Paths |-> 0]]
    /\ indexInitialized' = FALSE
    /\ UNCHANGED << file, tmpFile, writeLock, writing, ipc, iop, nextIndex, issued, extMarked,
                    burned, memHighest, cfg, call, now, pendingBlocks, historyTx, everTx,
                    tmpInvoices, fileInvoices, deleted, found >>

RecNext ==
    \/ \E resource \in Paths, ip \in {"none", "ip1"} : RecSave(resource, ip)
    \/ \E id \in Ids : RecDelete(id)
    \/ \E query \in FindQueries : RecFind(query)
    \/ RecRestart

(***************************************************************************)
(* Nano402.createInvoice on a MemoryInvoiceStore with its FileIndexStore   *)
(***************************************************************************)
\* the resource each concurrent createInvoice is called with, and the id
\* uuidv4() gives its invoice
AllocResource(p) == IF p = "a" THEN "r1" ELSE "r2"
AllocId(p) == IF p = "a" THEN 1 ELSE 2

\* the invoice createInvoice builds around the index it was given
AllocInvoice(p) == [NewInvoice(AllocResource(p)) EXCEPT !.index = nextIndex[p]]

\* the first find of the store runs ensureRecovered
AllocRecover ==
    /\ ~indexInitialized
    /\ ensureRecovered
    /\ UNCHANGED << memHighest, ipResourceIndex, cfg, call, now, pendingBlocks, historyTx,
                    everTx, deleted, found >>

\* createInvoice: findPendingByResource finds nothing, getNextIndex is called
AllocCreate(p, maxIdx) ==
    /\ indexInitialized
    /\ findPendingByResource(AllocResource(p)) = 0
    /\ IdxCallGet(p, maxIdx, FALSE)
    /\ UNCHANGED << invVars, recVars >>

\* persist(): the temp file gets the invoices too
AllocPersistWrite(p) ==
    /\ IdxPersistWrite(p)
    /\ tmpInvoices' = idxInvoices
    /\ UNCHANGED << invVars, idxInvoices, fileInvoices, indexInitialized, deleted, found >>

AllocPersistRename(p) ==
    /\ IdxPersistRename(p)
    /\ fileInvoices' = tmpInvoices
    /\ UNCHANGED << invVars, idxInvoices, tmpInvoices, indexInitialized, deleted, found >>

\* getNextIndex has returned: the invoice is built, the double-check finds
\* nothing and save calls markIndexUsed(invoice.index)
AllocGot(p) ==
    /\ ipc[p] = "ret" /\ iop[p] = "get"
    /\ issued' = Append(issued, << nextIndex[p], epoch >>)
    /\ IF findPendingByResource(AllocResource(p)) # 0
          THEN /\ ipc' = [ipc EXCEPT ![p] = "idle"]
               /\ nextIndex' = [nextIndex EXCEPT ![p] = -1]
               /\ UNCHANGED iop
          ELSE /\ AfterInitialize(p, "check")
               /\ iop' = [iop EXCEPT ![p] = "save"]
               /\ UNCHANGED nextIndex
    /\ UNCHANGED << file, tmpFile, indexes, highestIndex, initialized, writeLock, writing,
                    epoch, extMarked, burned, invVars, recVars >>

\* save: markIndexUsed has returned, storeInvoice sets the invoice's data and
\* persists
AllocStore(p) ==
    /\ ipc[p] = "ret" /\ iop[p] = "save"
    /\ idxInvoices' = MapSet(idxInvoices, AllocId(p), StoredInvoiceData(AllocInvoice(p)))
    /\ writeLock' = Append(writeLock, p)
    /\ ipc' = [ipc EXCEPT ![p] = "persist"]
    /\ iop' = [iop EXCEPT ![p] = "store"]
    /\ UNCHANGED << file, tmpFile, indexes, highestIndex, initialized, writing, nextIndex,
                    issued, epoch, extMarked, burned, invVars, tmpInvoices, fileInvoices,
                    indexInitialized, deleted, found >>

\* save: storeInvoice has returned, the invoice enters the maps
AllocSaved(p) ==
    /\ ipc[p] = "ret" /\ iop[p] = "store"
    /\ invoices' = InvoicesSet(AllocId(p), AllocInvoice(p))
    /\ resourceIndex' = [resourceIndex EXCEPT ![AllocResource(p)] = AllocId(p)]
    /\ ipc' = [ipc EXCEPT ![p] = "idle"]
    /\ nextIndex' = [nextIndex EXCEPT ![p] = -1]
    /\ UNCHANGED << file, tmpFile, indexes, highestIndex, initialized, writeLock, writing,
                    iop, issued, epoch, extMarked, burned, memHighest, ipResourceIndex, cfg,
                    call, now, pendingBlocks, historyTx, everTx, recVars >>

AllocNext ==
    \/ AllocRecover
    \/ \E p \in IdxProcs : AllocCreate(p, MaxIndex)
    \/ \E p \in IdxProcs : IdxCompute(p) /\ UNCHANGED << invVars, recVars >>
    \/ \E p \in IdxProcs : IdxCheck(p) /\ UNCHANGED << invVars, recVars >>
    \/ \E p \in IdxProcs : AllocPersistWrite(p)
    \/ \E p \in IdxProcs : AllocPersistRename(p)
    \/ \E p \in IdxProcs : AllocGot(p)
    \/ \E p \in IdxProcs : AllocStore(p)
    \/ \E p \in IdxProcs : AllocSaved(p)

\* the state of the concurrent parts after construction
ConcInit == AdapterInit /\ LockInit /\ RecInit

(***************************************************************************)
(* Specifications                                                          *)
(***************************************************************************)
\* a fresh FileIndexStore and a fresh Nano402 with the default configuration
InitDefault == IdxInit /\ InvInit({DefaultCfg}) /\ GuardInit({DefaultOpts}) /\ RpcInit({DefaultClient}) /\ FnInit /\ SqliteInit /\ ConcInit

\* the same under any configuration
InitAllCfgs == IdxInit /\ InvInit(AllCfgs) /\ GuardInit({DefaultOpts}) /\ RpcInit({DefaultClient}) /\ FnInit /\ SqliteInit /\ ConcInit

IdxNext ==
    /\ \/ \E p \in IdxProcs : IdxCallGet(p, MaxIndex, FALSE)
       \/ \E p \in IdxProcs, i \in 0..MaxIndex : IdxCallMark(p, i, FALSE)
       \/ \E p \in IdxProcs : IdxInitRead(p)
       \/ \E p \in IdxProcs : IdxCompute(p)
       \/ \E p \in IdxProcs : IdxCheck(p)
       \/ \E p \in IdxProcs : IdxPersistWrite(p)
       \/ \E p \in IdxProcs : IdxPersistRename(p)
       \/ \E p \in IdxProcs : IdxReturn(p)
       \/ IdxRestart(MaxRestarts)
    /\ UNCHANGED << invVars, guardVars, rpcVars, fn, rows, concVars >>

IdxSeqNext ==
    /\ \/ \E p \in IdxProcs : IdxCallGet(p, MaxSeqIndex, TRUE)
       \/ \E p \in IdxProcs, i \in SeqMarkArgs : IdxCallMark(p, i, TRUE)
       \/ \E p \in IdxProcs : IdxInitRead(p)
       \/ \E p \in IdxProcs : IdxCompute(p)
       \/ \E p \in IdxProcs : IdxCheck(p)
       \/ \E p \in IdxProcs : IdxPersistWrite(p)
       \/ \E p \in IdxProcs : IdxPersistRename(p)
       \/ \E p \in IdxProcs : IdxReturn(p)
       \/ IdxRestart(MaxSeqRestarts)
    /\ UNCHANGED << invVars, guardVars, rpcVars, fn, rows, concVars >>

\* concurrent callers of one FileIndexStore, with restarts
SpecIdx == InitDefault /\ [][IdxNext]_vars

\* one call at a time on a FileIndexStore, with restarts
SpecIdxSeq == InitDefault /\ [][IdxSeqNext]_vars

\* the steps every Nano402 call goes through after it has started
CallSteps(p) ==
    \/ CreateAlloc(p)
    \/ CreateDoubleCheck(p)
    \/ CreateSave(p)
    \/ \E rpcOk \in BOOLEAN : VerifyPending(p, rpcOk)
    \/ \E rpcOk \in BOOLEAN : VerifyHistory(p, rpcOk)
    \/ StoreUpdate(p)
    \/ Return(p)

\* the ids callers pass: those of the stored invoices and an unknown one
KnownIds == Ids \cup {0}

\* the lifecycle operations of Nano402 on up to maxInv invoices; a proof
\* names a transaction the ledger has
Lifecycle(p, maxInv, sequential) ==
    \/ \E r \in Resources : CreateFind(p, r, maxInv, sequential)
    \/ \E id \in KnownIds, proof \in 0..TxCount :
          VerifyStart(p, id, proof, sequential)
    \/ \E id \in KnownIds : GetStatus(p, id, sequential)
    \/ \E id \in KnownIds : MarkUsed(p, id, sequential)

\* the operator's calls that withdraw an invoice
Withdraw(p, sequential) ==
    \/ \E id \in KnownIds : CancelInvoice(p, id, sequential)
    \/ \E id \in KnownIds : RefundInvoice(p, id, sequential)

\* the access accounting the adapters do on a grant or a deny
Accounting(p, sequential) ==
    \/ \E id \in KnownIds : IncrementInvoiceAccess(p, id, sequential)
    \/ \E id \in KnownIds, ip \in ClientIps :
          UpdateInvoiceClientIp(p, id, ip, sequential)

\* a payer that sends exactly the price to an invoice's account, and the clock
PayerAndClock ==
    \/ Tick
    \/ \E id \in Ids : LedgerSend(deriveAccount(invoices[id].index), Price, "s1",
                                  MaxPayments, FALSE)

InvNext ==
    /\ \/ \E p \in InvProcs : Lifecycle(p, MaxConcInvoices, FALSE)
       \/ \E p \in InvProcs : Withdraw(p, FALSE)
       \/ \E p \in InvProcs : CallSteps(p)
       \/ PayerAndClock
    /\ UNCHANGED << idxVars, guardVars, rpcVars, fn, rows, concVars >>

InvSeqNext ==
    /\ \/ Lifecycle("p", MaxInvoices, TRUE)
       \/ Accounting("p", TRUE)
       \/ CallSteps("p")
       \/ PayerAndClock
    /\ UNCHANGED << idxVars, guardVars, rpcVars, fn, rows, concVars >>

\* an arbitrary ledger around one account; timed: the history keeps the
\* instant each transaction appeared
AnyLedger(timed) ==
    \/ \E amount \in {Price - 1, Price}, source \in Senders \cup {"none"} :
          LedgerSend(0, amount, source, MaxTx, timed)
    \/ \E amount \in {Price - 1, Price}, sender \in Senders,
          confirmed \in {"true", "false"} :
          LedgerHistory(0, "receive", amount, sender, confirmed, TRUE, MaxTx, timed)
    \/ LedgerHistory(0, "send", Price, "s1", "true", TRUE, MaxTx, timed)
    \/ \E k \in 1..MaxTx : LedgerDrop(k)

VerifyNext ==
    /\ \/ \E r \in Resources : CreateFind("p", r, 1, TRUE)
       \/ \E id \in {1}, proof \in 0..TxCount : VerifyStart("p", id, proof, TRUE)
       \/ \E id \in {1} : MarkUsed("p", id, TRUE)
       \/ CallSteps("p")
       \/ Tick
       \/ AnyLedger(FALSE)
    /\ UNCHANGED << idxVars, guardVars, rpcVars, fn, rows, concVars >>

\* concurrent calls of Nano402 on a MemoryInvoiceStore with a MemoryIndexStore
SpecInv == InitDefault /\ [][InvNext]_vars

\* the same calls, one at a time
SpecInvSeq == InitDefault /\ [][InvSeqNext]_vars

\* verifyPayment of one invoice under the default configuration, with
\* transactions that may be older than the invoice
ReplayNext ==
    /\ \/ \E r \in Resources : CreateFind("p", r, 1, TRUE)
       \/ \E id \in {1}, proof \in 0..TxCount : VerifyStart("p", id, proof, TRUE)
       \/ CallSteps("p")
       \/ Tick
       \/ AnyLedger(TRUE)
    /\ UNCHANGED << idxVars, guardVars, rpcVars, fn, rows, concVars >>

SpecReplay == InitDefault /\ [][ReplayNext]_vars

\* verifyPayment of one invoice, one call at a time, under every
\* configuration and an arbitrary ledger
SpecVerify == InitAllCfgs /\ [][VerifyNext]_vars

\* a guarded route under the default configuration and any GuardOptions
InitGuard == IdxInit /\ InvInit({DefaultCfg}) /\ GuardInit(AllOpts) /\ RpcInit({DefaultClient}) /\ FnInit /\ SqliteInit /\ ConcInit

\* the requests clients can send: a path, a request id (one that names a
\* stored invoice, none, or an unknown one), a proof (one that names a
\* transaction of the ledger, or none) and the client's ip
GuardRequests(paths, unknown, ips) ==
    \E path \in paths, requestId \in Ids \cup {0} \cup unknown,
       proofTxHash \in 0..TxCount, clientIp \in ips :
        GuardStart(path, requestId, proofTxHash, clientIp)

\* payers that send exactly the price to an invoice's account, and the clock
PayersAndClock(maxPayments) ==
    \/ Tick
    \/ \E id \in Ids : LedgerSend(deriveAccount(invoices[id].index), Price, "s1",
                                  maxPayments, FALSE)

\* what handleGuardRequest and the adapter do with a request that arrived,
\* and what happens around them
GuardSteps(maxPayments) ==
    \/ GuardPublic
    \/ GuardPublicVerified
    \/ GuardIp
    \/ GuardIpVerified
    \/ GuardProof
    \/ GuardProofVerified
    \/ GuardFallback
    \/ GuardStatus
    \/ GuardCreate
    \/ GuardCreated
    \/ GuardTrack
    \/ GuardTracked
    \/ AdapterRespond
    \/ AdapterIncrement
    \/ AdapterIncremented
    \/ AdapterMarkUsed
    \/ AdapterNext
    \/ GuardCallSteps
    \/ PayersAndClock(maxPayments) /\ UNCHANGED req

\* requests for one path from two clients, handled one at a time
GuardNext ==
    /\ \/ GuardRequests({"r1"}, {UnknownId}, ClientIps)
       \/ GuardSteps(MaxGuardPayments)
    /\ UNCHANGED << idxVars, opts, rpcVars, fn, rows, concVars >>

\* requests for two paths from one client, handled one at a time
GuardPathsNext ==
    /\ \/ GuardRequests(Paths, {}, {"ip1"})
       \/ GuardSteps(MaxPayments)
    /\ UNCHANGED << idxVars, opts, rpcVars, fn, rows, concVars >>

SpecGuard == InitGuard /\ [][GuardNext]_vars

SpecGuardPaths == InitGuard /\ [][GuardPathsNext]_vars

\* the configurations that differ in the sender check only
SenderCfgs ==
    {c \in AllCfgs : c.acceptPending /\ c.verifyTimestamp /\ c.proofTtl = 1}

\* a guarded route with the default GuardOptions under these configurations
InitGuardCfgs == IdxInit /\ InvInit(SenderCfgs) /\ GuardInit({DefaultOpts}) /\ RpcInit({DefaultClient}) /\ FnInit /\ SqliteInit /\ ConcInit

\* a ledger with up to MaxProofTx transactions to the first invoice's
\* account: receivable or received, of the price or less, from any sender
ProofLedger ==
    \/ \E amount \in {Price - 1, Price}, source \in Senders :
          LedgerSend(0, amount, source, MaxProofTx, FALSE)
    \/ \E amount \in {Price - 1, Price}, sender \in Senders :
          LedgerHistory(0, "receive", amount, sender, "true", TRUE, MaxProofTx, FALSE)

\* requests of one client for one path, with or without proof headers
GuardProofNext ==
    /\ \/ GuardRequests({"r1"}, {}, {"ip1"})
       \/ GuardProof
       \/ GuardProofVerified
       \/ GuardFallback
       \/ GuardStatus
       \/ GuardCreate
       \/ GuardCreated
       \/ AdapterRespond
       \/ AdapterIncrement
       \/ AdapterIncremented
       \/ AdapterMarkUsed
       \/ AdapterNext
       \/ GuardCallSteps
       \/ Tick /\ UNCHANGED req
       \/ ProofLedger /\ UNCHANGED req
    /\ UNCHANGED << idxVars, opts, rpcVars, fn, rows, concVars >>

SpecGuardProof == InitGuardCfgs /\ [][GuardProofNext]_vars

\* a guarded route that tracks origins (trackByIp), nothing else set
IpOpts == [DefaultOpts EXCEPT !.trackByIp = TRUE]

InitGuardIp == IdxInit /\ InvInit({DefaultCfg}) /\ GuardInit({IpOpts}) /\ RpcInit({DefaultClient}) /\ FnInit /\ SqliteInit /\ ConcInit

\* requests of two clients for one path, with or without proof headers,
\* handled one at a time, and one payment
GuardIpNext ==
    /\ \/ GuardRequests({"r1"}, {}, ClientIps)
       \/ GuardIp
       \/ GuardIpVerified
       \/ GuardProof
       \/ GuardProofVerified
       \/ GuardFallback
       \/ GuardStatus
       \/ GuardCreateUpTo(MaxIpInvoices)
       \/ GuardCreated
       \/ GuardTrack
       \/ GuardTracked
       \/ AdapterRespond
       \/ AdapterIncrement
       \/ AdapterIncremented
       \/ AdapterMarkUsed
       \/ AdapterNext
       \/ GuardCallSteps
       \/ PayersAndClock(MaxPayments) /\ UNCHANGED req
    /\ UNCHANGED << idxVars, opts, rpcVars, fn, rows, concVars >>

SpecGuardIp == InitGuardIp /\ [][GuardIpNext]_vars

\* requests under a plain, an ip-tracking and a public policy, whose awaited
\* calls may reject
CatchOpts ==
    {DefaultOpts, IpOpts, [DefaultOpts EXCEPT !.makeItPublic = TRUE]}

InitGuardCatch ==
    IdxInit /\ InvInit({DefaultCfg}) /\ GuardInit(CatchOpts) /\ RpcInit({DefaultClient}) /\ FnInit /\ SqliteInit /\ ConcInit

GuardCatchNext ==
    /\ \/ GuardRequests({"r1"}, {UnknownId}, {"ip1"})
       \/ GuardSteps(MaxPayments)
       \/ \E error \in Throwables, nodeEnv \in NodeEnvs : GuardCatch(error, nodeEnv)
    /\ UNCHANGED << idxVars, opts, rpcVars, fn, rows, concVars >>

SpecGuardCatch == InitGuardCatch /\ [][GuardCatchNext]_vars

\* one caller of the client, without the cache, under every retry setting; the
\* fetch settles (the abort timer sees to it), the body read settles and the
\* sleep ends
RetryClients ==
    {[retries |-> n, cacheEnabled |-> FALSE, cacheTtl |-> DefaultTtl] : n \in 0..MaxRetries}

InitRpcCall ==
    IdxInit /\ InvInit({DefaultCfg}) /\ GuardInit({DefaultOpts}) /\ RpcInit(RetryClients) /\ FnInit /\ SqliteInit /\ ConcInit

RpcStep(c) == RpcProgress(c) /\ UNCHANGED << idxVars, invVars, guardVars, fn, rows, concVars >>

RpcCallNext ==
    \/ /\ \/ accountHistory("a", "a1", DefaultCount, MaxRpcCalls)
          \/ RpcReturn("a")
       /\ UNCHANGED << idxVars, invVars, guardVars, fn, rows, concVars >>
    \/ RpcStep("a")

SpecRpcCall == InitRpcCall /\ [][RpcCallNext]_vars /\ WF_vars(RpcStep("a"))

\* two callers of a caching client that does not retry, the clock, and
\* clearCache
CacheClient == [DefaultClient EXCEPT !.retries = 0]

InitRpcCache ==
    IdxInit /\ InvInit({DefaultCfg}) /\ GuardInit({DefaultOpts}) /\ RpcInit({CacheClient}) /\ FnInit /\ SqliteInit /\ ConcInit

RpcCacheNext ==
    \/ /\ \/ \E c \in Callers :
                \/ \E account \in Accounts :
                      \/ \E count \in Counts :
                            \/ accountHistory(c, account, count, MaxCacheCalls)
                            \/ accountsPending(c, account, count, MaxCacheCalls)
                      \/ accountInfo(c, account, MaxCacheCalls)
                \/ RpcFetched(c)
                \/ RpcParsed(c)
                \/ RpcReturn(c)
          \/ \E account \in Accounts : clearCache(account)
       /\ UNCHANGED << idxVars, invVars, guardVars, fn, rows, concVars >>
    \/ Tick /\ UNCHANGED << idxVars, guardVars, rpcVars, fn, rows, concVars >>

SpecRpcCache == InitRpcCache /\ [][RpcCacheNext]_vars

\* a route with a usage cap, its Nano402 and a fresh store
InitUsage ==
    IdxInit /\ InvInit({DefaultCfg}) /\ GuardInit({UsageOpts}) /\ RpcInit({DefaultClient}) /\ FnInit /\ SqliteInit /\ ConcInit

\* concurrent requests for one path; the payer pays the invoice of a 402
\* and the payment is verified by a verifyPayment call of its own
UsageNext ==
    /\ \/ \E g \in InvProcs : VisitStart(g, "r1", MaxVisits)
       \/ \E g \in InvProcs : VisitFallback(g)
       \/ \E g \in InvProcs : VisitStatus(g)
       \/ \E g \in InvProcs : VisitCreate(g, MaxUsageInvoices)
       \/ \E g \in InvProcs : VisitCreated(g)
       \/ \E g \in InvProcs : VisitIncrement(g)
       \/ \E g \in InvProcs : VisitIncremented(g)
       \/ \E g \in InvProcs : VisitMarkUsed(g)
       \/ \E g \in InvProcs : VisitNext(g)
       \/ \E g \in InvProcs : VisitCallSteps(g)
       \/ /\ \/ \E id \in Ids :
                   visit["p"].pc = "idle" /\ VerifyStart("p", id, 0, FALSE)
             \/ \E rpcOk \in BOOLEAN : VerifyPending("p", rpcOk)
             \/ \E rpcOk \in BOOLEAN : VerifyHistory("p", rpcOk)
             \/ visit["p"].pc = "idle" /\ Return("p")
             \/ PayerAndClock
          /\ UNCHANGED adapterVars
    /\ UNCHANGED << idxVars, guardVars, rpcVars, fn, rows, lockVars, recVars >>

SpecUsage == InitUsage /\ [][UsageNext]_vars

LockStep == LockNext /\ UNCHANGED << idxVars, invVars, guardVars, rpcVars, fn, rows, adapterVars, recVars >>

\* callers of update and incrementAccess on one MemoryInvoiceStore.  The
\* runtime always runs a ready continuation; the completion of the file
\* I/O a lock holder awaits is a callback of the host, taken at one of the
\* turns the host gets whenever no continuation is ready
SpecLock ==
    /\ InitDefault
    /\ [][LockStep]_vars
    /\ WF_vars(RunJob /\ UNCHANGED << idxVars, invVars, guardVars, rpcVars, fn, rows, adapterVars, recVars >>)
    /\ \A c \in LockProcs :
          SF_vars(StoreInvoiceDone(c) /\ UNCHANGED << idxVars, invVars, guardVars, rpcVars, fn, rows, adapterVars, recVars >>)

\* one MemoryInvoiceStore on its FileIndexStore, one call at a time, with
\* restarts between calls
RecStep == RecNext /\ UNCHANGED << guardVars, rpcVars, fn, rows, adapterVars, lockVars >>

SpecRecover == InitDefault /\ [][RecStep]_vars

\* two createInvoice calls, for two resources, on one MemoryInvoiceStore with
\* its FileIndexStore
AllocStep == AllocNext /\ UNCHANGED << guardVars, rpcVars, fn, rows, adapterVars, lockVars >>

SpecAlloc == InitDefault /\ [][AllocStep]_vars

(***************************************************************************)
(* Claims about the index allocator                                        *)
(***************************************************************************)
SameStore(j, k) == issued[j][2] = issued[k][2]

\* C3: concurrent getNextIndex calls on one FileIndexStore instance (also
\* calls that overlap the first lazy initialize) never return the same index
\* to two callers.
C3_NoIndexReturnedTwice ==
    \A j, k \in DOMAIN issued :
        (j # k /\ SameStore(j, k)) => issued[j][1] # issued[k][1]

\* C4: for completed getNextIndex calls made one after another, interleaved
\* with restarts and crashes, each returned index is strictly greater than
\* every index returned before it; when no index was marked from outside and
\* no crash hit a call between its rename and its return, the k-th call
\* returns k-1, so the call after the one that returned 7 returns 8.
C4_IndexMonotonic ==
    /\ \A j, k \in DOMAIN issued : j < k => issued[j][1] < issued[k][1]
    /\ (~extMarked /\ ~burned) => \A k \in DOMAIN issued : issued[k][1] = k - 1

\* C4 witness: 7 was issued, the process restarted, the next call returned 8
C4_Witness ==
    /\ Len(issued) >= 9
    /\ issued[8][1] = 7
    /\ issued[9][1] = 8
    /\ issued[9][2] > issued[8][2]
    /\ ~extMarked /\ ~burned

\* C5: when a getNextIndex or markIndexUsed call returns index i, the
\* persisted index file already contains i.
C5_DurableBeforeReturn ==
    \A p \in IdxProcs :
        ipc[p] = "ret" => (file.present /\ nextIndex[p] \in file.indexes)

(***************************************************************************)
(* Claims about the invoice lifecycle                                      *)
(***************************************************************************)
PendingUnexpired(id) ==
    /\ id \in Ids
    /\ invoices[id].status = "pending"
    /\ ~IsExpiredAt(invoices[id], now)

\* C1: when two createInvoice calls for the same resource overlap and both
\* have returned an invoice that is still pending and unexpired, exactly one
\* invoice was saved and both callers hold the same invoice id.
C1_ConcurrentCreateOneInvoice ==
    \A p, q \in InvProcs :
        (/\ p # q
         /\ call[p].pc = "ret" /\ call[q].pc = "ret"
         /\ call[p].op = "create" /\ call[q].op = "create"
         /\ call[p].resource = call[q].resource
         /\ call[p].conc /\ call[q].conc
         /\ PendingUnexpired(call[p].id) /\ PendingUnexpired(call[q].id))
        => (call[p].id = call[q].id /\ ~(call[p].saved /\ call[q].saved))

\* C2: in every state reached by calls made one after another, the store
\* holds at most one invoice per resource that is pending and unexpired.
C2_OnePendingPerResource ==
    \A r \in Resources :
        Cardinality({id \in Ids : invoices[id].resource = r /\ PendingUnexpired(id)}) <= 1

\* pending -> {paid, expired, cancelled} -> {used, refunded}
Rank(status) ==
    IF status = "pending" THEN 0
    ELSE IF status \in {"paid", "expired", "cancelled"} THEN 1
    ELSE 2

\* C6: no step moves an invoice's status backwards or sideways: a status
\* changes only to one further along pending -> {paid, expired, cancelled}
\* -> {used, refunded}.
C6_StatusOnlyForward ==
    [][\A id \in Ids :
          \/ invoices'[id].status = invoices[id].status
          \/ Rank(invoices[id].status) < Rank(invoices'[id].status)]_vars

\* C7: in every state, an invoice has paid_at set if and only if its status
\* is paid, used or refunded.
C7_PaidAtIffPaid ==
    \A id \in Ids :
        (invoices[id].paid_at # -1) <=>
            (invoices[id].status \in {"paid", "used", "refunded"})

\* C8: a verifyPayment call on an invoice that is already paid or used
\* returns true and leaves status, paid_at and tx_hash as they were, at
\* whatever time it is made.
C8_VerifyPaidIdempotent ==
    \A p \in InvProcs :
        (/\ call[p].pc = "ret" /\ call[p].op = "verify"
         /\ call[p].pre.status \in {"paid", "used"})
        => /\ call[p].ret = "true"
           /\ invoices[call[p].id].status = call[p].pre.status
           /\ invoices[call[p].id].paid_at = call[p].pre.paid_at
           /\ invoices[call[p].id].tx_hash = call[p].pre.tx_hash

\* the ledger has had a transaction for the invoice's address with this
\* hash, a pending block or a receive entry, of at least amount_raw
LedgerBacks(invoice, hash) ==
    \E tx \in everTx :
        /\ tx.account = deriveAccount(invoice.index)
        /\ tx.hash = hash
        /\ tx.kind \in {"pending", "receive"}
        /\ tx.amount >= invoice.amount_raw

\* C9: verifyPayment writes status paid only with the hash of a transaction
\* for the invoice's address (pending block or receive entry) of amount >=
\* amount_raw, equal to the proof hash when one was supplied; every stored
\* tx_hash is the hash of such a transaction.
C9_PaidOnlyByMatchingTx ==
    /\ \A p \in InvProcs :
          (call[p].pc = "update" /\ call[p].op = "verify"
           /\ call[p].upd.status = "paid")
          => /\ LedgerBacks(invoices[call[p].id], call[p].upd.tx_hash)
             /\ call[p].proof # 0 => call[p].upd.tx_hash = call[p].proof
    /\ \A id \in Ids :
          invoices[id].tx_hash # 0 => LedgerBacks(invoices[id], invoices[id].tx_hash)

\* C9 witness: of two transactions the first pays too little; a verify with
\* the second one's hash as proof has made the invoice paid with that hash
C9_Witness ==
    /\ call["p"].pc = "ret" /\ call["p"].op = "verify" /\ call["p"].ret = "true"
    /\ call["p"].proof = 2
    /\ invoices[1].status = "paid" /\ invoices[1].tx_hash = 2
    /\ \E tx \in everTx : tx.hash = 1 /\ tx.amount < invoices[1].amount_raw

\* the blocks accounts_pending reported to the call that pay enough
Sufficient(p) == {b \in call[p].reported : b.amount >= call[p].pre.amount_raw}

\* ... and that the configured sender verification lets through
SufficientAllowed(p) ==
    {b \in Sufficient(p) :
        \/ ~cfg.verifySender
        \/ cfg.allowedSenders = {}
        \/ b.source = "none"
        \/ b.source \in cfg.allowedSenders}

\* the call returned true and the invoice is paid by one of the blocks
PaidByOneOf(p, blocks) ==
    /\ call[p].ret = "true"
    /\ invoices[call[p].id].status = "paid"
    /\ invoices[call[p].id].tx_hash \in {b.hash : b \in blocks}
    /\ invoices[call[p].id].paid_at # -1

\* C10: for a pending, unexpired invoice, acceptPending on and no proof
\* hash, if accounts_pending reports a block for the invoice's address with
\* amount >= amount_raw, verifyPayment returns true and the invoice is then
\* paid with that block's hash as tx_hash and paid_at set.
C10_PendingTxAccepted ==
    \A p \in InvProcs :
        (/\ call[p].pc = "ret" /\ call[p].op = "verify"
         /\ call[p].fresh /\ cfg.acceptPending /\ call[p].proof = 0
         /\ Sufficient(p) # {})
        => PaidByOneOf(p, Sufficient(p))

\* C10 as amended: the same, for a reported block that also passes the
\* sender verification (off, empty allow-list, block without a source, or
\* source in the allow-list); the report presupposes that the proof window
\* of the invoice had not passed when verifyPayment was called.
C10_PendingTxAcceptedFromAllowed ==
    \A p \in InvProcs :
        (/\ call[p].pc = "ret" /\ call[p].op = "verify"
         /\ call[p].fresh /\ cfg.acceptPending /\ call[p].proof = 0
         /\ SufficientAllowed(p) # {})
        => PaidByOneOf(p, SufficientAllowed(p))

\* C10 witness: sender verification with an allow-list; the first block
\* paying enough is from another sender, the second is accepted
C10_Witness ==
    /\ call["p"].pc = "ret" /\ call["p"].op = "verify" /\ call["p"].fresh
    /\ cfg.acceptPending /\ cfg.verifySender /\ cfg.allowedSenders = {"s1"}
    /\ call["p"].proof = 0
    /\ Sufficient("p") # SufficientAllowed("p")
    /\ SufficientAllowed("p") # {}
    /\ PaidByOneOf("p", SufficientAllowed("p"))

(***************************************************************************)
(* Claims about the checks of verifyPayment                                *)
(***************************************************************************)
\* the ledger's transactions with this hash (hashes are unique)
TxWithHash(hash) == {tx \in everTx : tx.hash = hash}

\* C11: with verifySender on and a non-empty allow-list, no invoice is paid
\* by a transaction (pending block or history entry) whose sender is not in
\* the allow-list; a block without sender information is not in it.
C11_PaidOnlyFromAllowedSender ==
    (cfg.verifySender /\ cfg.allowedSenders # {}) =>
        \A id \in Ids :
            invoices[id].tx_hash # 0 =>
                \A tx \in TxWithHash(invoices[id].tx_hash) :
                    tx.sender \in cfg.allowedSenders

\* C12: with verifyTimestamp on, no invoice is paid by a transaction that
\* appeared on the ledger before the invoice's created_at.
C12_NoPaymentOlderThanInvoice ==
    \A id \in Ids :
        invoices[id].tx_hash # 0 =>
            \A tx \in TxWithHash(invoices[id].tx_hash) :
                tx.at >= invoices[id].created_at

\* C13: a verifyPayment call on a pending invoice made after expires_at, or
\* after proof_expires_at, returns false and leaves the stored status
\* expired.
C13_LateVerifyMarksExpired ==
    \A p \in InvProcs :
        (/\ call[p].pc = "ret" /\ call[p].op = "verify"
         /\ call[p].pre.status = "pending" /\ call[p].late)
        => /\ call[p].ret = "false"
           /\ invoices[call[p].id].status = "expired"

\* C14: when verifyPayment returns false for an invoice that was pending
\* and unexpired when it was called, every field of the stored invoice is
\* as it was and the invoice is still pending.
C14_FalseLeavesInvoiceUntouched ==
    \A p \in InvProcs :
        (/\ call[p].pc = "ret" /\ call[p].op = "verify"
         /\ call[p].fresh /\ call[p].ret = "false")
        => /\ invoices[call[p].id] = call[p].pre
           /\ invoices[call[p].id].status = "pending"

\* C14 witness: accounts_pending answered with a block that pays too little,
\* verifyPayment returned false and the invoice is as it was
C14_Witness ==
    /\ call["p"].pc = "ret" /\ call["p"].op = "verify" /\ call["p"].fresh
    /\ call["p"].ret = "false"
    /\ call["p"].reported # {} /\ Sufficient("p") = {}
    /\ invoices[1] = call["p"].pre

(***************************************************************************)
(* Claims about handleGuardRequest                                         *)
(***************************************************************************)
\* C15: when the last ledger call of a verifyPayment made for a request
\* failed (RpcError or RpcTimeoutError), the request's result is an error
\* with status 503, not a grant and not a deny
C15_RpcFailureGives503 ==
    (req.pc = "done" /\ req.rpcFailed) => (req.type = "error" /\ req.status = 503)

\* C16: a request is granted only on an invoice that, when the decision is
\* taken, is paid or used and belongs to the requested path
C16_GrantOnlyOnPaidInvoiceOfPath ==
    (req.pc = "done" /\ req.type = "grant") =>
        /\ req.resultId \in Ids
        /\ invoices[req.resultId].status \in {"paid", "used"}
        /\ invoices[req.resultId].resource = req.path

\* a grant while the store also holds an invoice of another resource
C16_Witness ==
    /\ req.pc = "done"
    /\ req.type = "grant"
    /\ \E id \in Ids : invoices[id].resource # req.path

\* C17: a request that presents, with a proof, a paid or used invoice of the
\* requested path is granted if and only if the invoice's session is valid
\* and its usage is not exceeded, at the instant of the request
C17_ProofGrantIffSessionAndUsage ==
    (/\ req.pc = "done"
     /\ ~opts.makeItPublic
     /\ req.requestId \in Ids
     /\ req.proof # 0
     /\ req.pre.resource = req.path
     /\ req.pre.status \in {"paid", "used"}
     /\ now = req.t0)
    => (req.type = "grant"
        <=> (/\ isSessionValid(req.pre, opts.sessionDuration)
             /\ ~isUsageExceeded(req.pre, opts.maxUsage)))

\* the request presents, with its own transaction as proof, an invoice of
\* the path that a grant has already been counted on and marked used
SecondUse ==
    /\ req.requestId \in Ids
    /\ req.proof # 0
    /\ req.proof = req.pre.tx_hash
    /\ req.pre.resource = req.path
    /\ req.pre.status = "used"
    /\ req.pre.access_count >= 1

\* C18: with maxUsage 1, a request that presents an invoice already granted
\* on once (counted and marked used) and its valid proof is denied
C18_SecondUseDenied ==
    (req.pc = "done" /\ opts.maxUsage = 1 /\ SecondUse) => req.type = "deny"

\* no payment was made to another invoice of the path
NoOtherPayment ==
    \A id \in Ids \ {req.requestId} :
        invoices[id].resource = req.path => ~Funded(invoices[id])

\* C18 (amended): with maxUsage 1, a request that presents an invoice
\* already granted on once and its valid proof is never granted on that
\* invoice, and it is denied unless another invoice of the path was paid
C18_SecondUseDeniedOnThatInvoice ==
    (req.pc = "done" /\ opts.maxUsage = 1 /\ SecondUse) =>
        /\ req.type = "grant" => req.resultId # req.requestId
        /\ NoOtherPayment => req.type = "deny"

\* such a request denied with a new invoice while the presented invoice is
\* still used and unexpired
C18_Witness ==
    /\ req.pc = "done"
    /\ opts.maxUsage = 1
    /\ SecondUse
    /\ NoOtherPayment
    /\ req.type = "deny"
    /\ req.created
    /\ invoices[req.requestId].status = "used"
    /\ ~IsExpiredAt(invoices[req.requestId], now)

\* a finished request without proof headers from an origin whose invoice
\* for the path already had its payment on the ledger when it arrived
FromPaidOrigin ==
    /\ req.pc = "done"
    /\ opts.trackByIp
    /\ req.requestId = 0
    /\ req.proof = 0
    /\ req.pre # NoInvoice
    /\ req.pre.client_ip = req.clientIp
    /\ req.pre.resource = req.path
    /\ req.funded

StillUsable ==
    /\ req.pre.status \in {"pending", "paid", "used"}
    /\ now < req.pre.expires_at
    /\ now <= req.pre.proof_expires_at
    /\ ~req.rpcErrors
    /\ ~isUsageExceeded(req.pre, opts.maxUsage)
    /\ req.pre.paid_at # -1 => isSessionValid(req.pre, opts.sessionDuration)

C20_OtherOriginDenied ==
    (/\ req.pc = "done"
     /\ opts.trackByIp
     /\ ~opts.makeItPublic
     /\ req.requestId = 0
     /\ req.proof = 0
     /\ \E id \in req.paidBefore :
           invoices[id].client_ip \notin {"none", req.clientIp})
    => (/\ req.type = "deny"
        /\ req.created
        /\ req.resultId \notin req.paidBefore)

\* the verifyPayment of the invoice the request id names, with the proof
\* of the request, returned false
ProofRejected ==
    /\ req.pc = "done"
    /\ req.requestId \in Ids
    /\ req.proofValid = "false"

\* C21: when both proof headers are present and the verification of the
\* existing invoice they name fails, the result is a deny with that invoice
\* and the error annotation, and the request creates no invoice and
\* allocates no index
C21_FailedProofDeniesSameInvoice ==
    ProofRejected =>
        /\ req.type = "deny"
        /\ req.resultId = req.requestId
        /\ req.error = "Payment proof verification failed"
        /\ Len(invoices) = req.count0
        /\ memHighest = req.highest0

\* the proof names a real transaction to the account of a pending unexpired
\* invoice that pays less than its amount
C21_Witness ==
    /\ ProofRejected
    /\ req.type = "deny"
    /\ req.pre.status = "pending"
    /\ ~IsExpiredAt(req.pre, now)
    /\ \E tx \in TxWithHash(req.proof) :
          /\ tx.account = deriveAccount(req.pre.index)
          /\ tx.amount < req.pre.amount_raw

\* C22: under any policy, a request without proof headers for a path whose
\* invoice (the one getInvoiceByResource returns) is paid or used with a
\* valid session and usage left is granted
C22_PaidResourceGranted ==
    (/\ req.pc = "done"
     /\ req.requestId = 0
     /\ req.proof = 0
     /\ req.grantable0
     /\ now = req.t0)
    => req.type = "grant"

\* the functions of verification.ts applied to any arguments
SpecFn == InitDefault /\ [][FnNext]_vars

\* the two stores given the same saves and updates
SpecStores == InitDefault /\ [][StoresNext]_vars


(***************************************************************************)
(* Claims about NanoRpcClient                                              *)
(***************************************************************************)
\* the attempts of caller c's call that have settled so far
Settled(c) == rpc[c].history
LastSettled(c) == Settled(c)[Len(Settled(c))]
Http4xx(e) == e.name = "RpcError" /\ e.statusCode \in 400..499

RpcCallBounded(c) ==
    /\ Len(Settled(c)) <= client.retries + 1
    /\ Len(requests) <= nCalls * (client.retries + 1)
    \* an attempt that was followed by another one was no success and no 4xx
    /\ \A i \in 1..(Len(Settled(c)) - 1) :
          Settled(c)[i] # Success /\ ~Http4xx(Settled(c)[i])
    \* a call that is still running has an attempt left
    /\ rpc[c].pc \in {"fetch", "body", "sleep"} => Len(Settled(c)) <= client.retries
    /\ rpc[c].pc = "done" =>
          \/ rpc[c].outcome = "ok" /\ LastSettled(c) = Success
          \/ /\ rpc[c].outcome = "throw"
             /\ LastSettled(c) # Success
             /\ rpc[c].error = LastSettled(c)
             /\ Http4xx(LastSettled(c)) \/ Len(Settled(c)) = client.retries + 1

SameKey(i, j) ==
    /\ requests[i].operation = requests[j].operation
    /\ requests[i].account = requests[j].account
    /\ requests[i].count = requests[j].count

\* C24: with the cache enabled and as long as clearCache was never called, a
\* request that did not fail is followed by another request for the same
\* operation, address and count only after more than the TTL.
C24_OneRequestPerTtlWindow ==
    \A i, j \in 1..Len(requests) :
        ( /\ i < j
          /\ SameKey(i, j)
          /\ client.cacheEnabled
          /\ requests[i].result # "failed"
          /\ clears[requests[i].account].at = -1 )
        => requests[j].at - requests[i].at > client.cacheTtl

Answered(c) == rpc[c].pc = "done" /\ rpc[c].outcome = "ok"

\* C25: the response a call returns was fetched by a request with the call's
\* own operation, address and count.
C25_ResponseOfSameParameters ==
    \A c \in Callers :
        Answered(c) =>
            /\ rpc[c].data.operation = rpc[c].operation
            /\ rpc[c].data.account = rpc[c].account
            /\ rpc[c].data.count = rpc[c].count

\* C26: the first call for an address that starts after clearCache(address)
\* returns the response of a request that went upstream after the clear.
C26_FreshAfterClear ==
    \A c \in Callers :
        (Answered(c) /\ rpc[c].afterClear >= 0) => rpc[c].data.request > rpc[c].afterClear

(***************************************************************************)
(* Claims about verification.ts                                            *)
(***************************************************************************)
\* C27: isSessionValid is false without paid_at; with sessionDuration
\* undefined it is true exactly if expires_at is missing or lies after now;
\* otherwise it is true exactly if now lies before paid_at plus
\* sessionDuration seconds.
C27_IsSessionValid ==
    fn.f = "isSessionValid" =>
        /\ fn.invoice.paid_at = Missing => ~fn.result
        /\ (fn.invoice.paid_at # Missing /\ fn.sessionDuration = Missing) =>
              (fn.result <=> (fn.invoice.expires_at = Missing \/ fn.t < fn.invoice.expires_at))
        /\ (fn.invoice.paid_at # Missing /\ fn.sessionDuration # Missing) =>
              (fn.result <=> fn.t < fn.invoice.paid_at + 1000 * fn.sessionDuration)

\* a session of one second asked about at the very instant it ends
C27_Witness ==
    /\ fn.f = "isSessionValid"
    /\ fn.invoice.paid_at = 1000
    /\ fn.sessionDuration = 1
    /\ fn.t = 2000
    /\ ~fn.result

\* the number a string of decimal digits denotes
RECURSIVE Decimal(_)
Decimal(digits) ==
    IF digits = << >> THEN 0
    ELSE 10 * Decimal(SubSeq(digits, 1, Len(digits) - 1)) + digits[Len(digits)]

\* C28: the Retry-After header of generate402Response is the decimal string
\* of max(0, ceil((expires_at - now) / 1000)): never negative, 0 for an expiry
\* that is not in the future, else the whole seconds left, rounded up.
C28_RetryAfter ==
    fn.f = "generate402Response" =>
        LET seconds == Decimal(fn.retryAfter)
            left == fn.expires_at - fn.t
        IN  /\ fn.retryAfter # << >>
            /\ \A i \in 1..Len(fn.retryAfter) : fn.retryAfter[i] \in 0..9
            /\ seconds >= 0
            /\ left <= 0 => seconds = 0
            /\ left > 0 => (seconds - 1) * 1000 < left /\ left <= seconds * 1000

\* an expiry a second and a millisecond away: Retry-After is 2
C28_Witness ==
    /\ fn.f = "generate402Response"
    /\ fn.expires_at - fn.t = 1001
    /\ fn.retryAfter = << 2 >>

(***************************************************************************)
(* Claims about the catch block of handleGuardRequest                      *)
(***************************************************************************)
Raised == req.pc = "done" /\ req.thrown # "none"

C30_StoresAgreeByResource ==
    \A resource \in Paths : MemoryFindByResource(resource) \in SqliteFindByResource(resource)

(***************************************************************************)
(* Claims about the status preconditions of markUsed, cancelInvoice and    *)
(* refundInvoice                                                           *)
(***************************************************************************)
\* the call of p writes its update into a stored invoice in this step
Writes(p) == call[p].pc = "update" /\ call'[p].pc = "ret" /\ call[p].id \in Ids

\* the call of p fails in this step
Fails(p) == call[p].pc = "idle" /\ call'[p].pc = "ret"
            /\ call'[p].ret \in {"NotFound", "NotPaid", "Error"}

\* C31: markUsed changes only an invoice whose status is paid,
\* cancelInvoice only a pending one and refundInvoice only a paid or used
\* one, whatever other calls run on the same invoice meanwhile; a call that
\* fails leaves the invoices as they were.
C31_TransitionsOnlyFromAllowedStatus ==
    [][\A p \in InvProcs :
          /\ Writes(p) =>
                LET status == invoices[call[p].id].status IN
                /\ call[p].op = "markUsed" => status = "paid"
                /\ call[p].op = "cancel" => status = "pending"
                /\ call[p].op = "refund" => status \in {"paid", "used"}
          /\ Fails(p) => invoices' = invoices]_vars

(***************************************************************************)
(* Claims about the usage cap and the access count                         *)
(***************************************************************************)
\* the number of grants returned for an invoice so far
Grants(id) == Cardinality({i \in DOMAIN granted : granted[i] = id})

\* C32: with maxUsage configured, the requests of concurrent clients, each
\* followed by the adapter's incrementInvoiceAccess and markUsed, are
\* granted at most maxUsage times on one invoice.
C32_GrantsWithinMaxUsage ==
    opts.maxUsage # -1 => \A id \in Ids : Grants(id) <= opts.maxUsage

\* C33: every incrementInvoiceAccess that completes adds exactly one to the
\* invoice's access_count as it is when the call writes: no increment of
\* another call is lost.
C33_NoIncrementLost ==
    [][\A p \in InvProcs :
          (Writes(p) /\ call[p].op = "increment") =>
              invoices'[call[p].id].access_count
                  = invoices[call[p].id].access_count + 1]_vars

(***************************************************************************)
(* Claims about MemoryInvoiceStore's named lock                            *)
(***************************************************************************)
\* the callers between acquireLock(key) returning and their release of key
Holders(key) == {c \in LockProcs : key \in lk[c].held}

\* C34: for every key at most one caller is between acquireLock(key)
\* returning and its release, and a caller waits in acquireLock only while
\* another caller holds that same key.
C34_MutualExclusionPerKey ==
    /\ \A key \in LockKeys : Cardinality(Holders(key)) <= 1
    /\ \A c \in LockProcs :
          lk[c].pc = "waiting" => Holders(lk[c].key) \ {c} # {}

\* a caller holds a key it had to wait for while a second caller waits for
\* that key and a third holds another key
C34_Witness ==
    \E c, d, e \in LockProcs :
        /\ lk[c].waited /\ lk[c].pc = "holding"
        /\ d # e /\ lk[d].pc = "waiting" /\ lk[d].key = lk[c].key
        /\ lk[e].held \ {lk[c].key} # {}

\* caller c is in acquireLock
Acquiring(c) == lk[c].pc \in {"calling", "waiting", "woken"}

WaitsUpstream(c) == rpc[c].pc \in {"fetch", "body"}

\* C36: while an attempt of rpcCall waits for the upstream, for the response
\* headers or for the response body, its timeout timer is armed
C36_TimerArmedWhileWaiting ==
    \A c \in Callers : WaitsUpstream(c) => rpc[c].timeoutId

\* ---- C37 ----
\* C37: no two invoices in the store have the same index
C37_IndexesDistinct ==
    \A i, j \in Ids :
        (InMemory(i) /\ InMemory(j) /\ i # j) => invoices[i].index # invoices[j].index

\* ---- C38 ----
\* the call of p writes status paid, with tx_hash and paid_at, in this step
WritesPaid(p) == Writes(p) /\ call[p].upd.status = "paid"

\* C38: paid_at and tx_hash of an invoice are written once: no later or
\* concurrent verifyPayment, and no other operation, changes them once they
\* are set, and an invoice is taken from pending to paid at most once.
C38_PaidFieldsWriteOnce ==
    [][/\ \A id \in Ids :
             invoices[id].paid_at # NoInvoice.paid_at =>
                 /\ invoices'[id].paid_at = invoices[id].paid_at
                 /\ invoices'[id].tx_hash = invoices[id].tx_hash
       /\ \A p \in InvProcs :
             WritesPaid(p) => invoices[call[p].id].paid_at = NoInvoice.paid_at]_vars

\* ---- C39 ----
\* C39: with both proof headers present (makeItPublic and trackByIp off), a
\* request is granted only if its X-402-Proof is the tx_hash recorded on the
\* invoice its X-402-Request-Id names
C39_GrantOnlyForRecordedProof ==
    (/\ req.type = "grant"
     /\ req.requestId \in Ids
     /\ req.proof # 0)
    => invoices[req.requestId].tx_hash = req.proof

\* ---- C40 ----
\* C40: once delete(id) has completed, no later findById, findByResource,
\* findByClientIp or findAll returns that invoice, a restart on the same
\* file included
C40_DeletedNeverFound ==
    [][Len(found') > Len(found) => found'[Len(found')].ids \cap deleted = {}]_vars

====
